---- MODULE Spec2Model ----
(***************************************************************************)
(* Model of the allsend channel hub (packages/core/src/hub.ts), the base   *)
(* adapter contract (packages/core/src/adapter.ts) and the lifecycle of    *)
(* the Telegram, Discord, WhatsApp and iMessage adapters the hub drives.   *)
(*                                                                         *)
(* Strings are sequences of one-character strings, so that splitting and   *)
(* joining on the ':' delimiter is computed, not assumed.                  *)
(***************************************************************************)
EXTENDS Integers, Sequences, FiniteSets, TLC

VARIABLES
    adapters,     \* ChannelHub.adapters : Map<id, adapter>, in insertion order
    running,      \* ChannelHub.running
    state,        \* BaseAdapter.state of every adapter instance
    listeners,    \* number of hub listener sets attached to every instance
    readyOnce,    \* the client's 'ready' handler is still armed (Discord: client.once)
    readyDue,     \* the platform owes the adapter its 'ready' event or onStart callback
    calls,        \* every connect() and disconnect() the hub has invoked
    ops,          \* every registry and lifecycle call made on the hub
    msg,          \* the latest send, reply or broadcast made on the hub
    msgAt,        \* the registry, running flag and adapter states when msg was made
    sends,        \* the sendMessage calls the hub has invoked for msg
    sent,         \* the number of messaging calls made on the hub
    hubLog,       \* the signals the hub has emitted, in order, by their source
    emitted,      \* the signals every adapter instance has emitted, in order
    lastMessageDate,  \* iMessageAdapter.lastMessageDate
    bluebubbles,  \* the messages the BlueBubbles server holds, as they came
    polls         \* the queries the iMessage adapter's poller has made

lifecycle == <<adapters, running, state, listeners, readyOnce, readyDue, calls, ops, hubLog,
               emitted>>
messaging == <<msg, msgAt, sends, sent>>
polling == <<lastMessageDate, bluebubbles, polls>>
vars == <<lifecycle, messaging, polling>>

-----------------------------------------------------------------------------
(* Bounds *)

MaxOps == 4          \* registry and lifecycle calls per behaviour, without messaging
MaxSetup == 3        \* registry and lifecycle calls per behaviour, with messaging
MaxSends == 1        \* send, reply and broadcast calls per behaviour
MaxBroadcast == 2    \* destinations per broadcast
MaxWiring == 3       \* lifecycle and removal calls per behaviour, with platform events
MaxAdapters == 1     \* adapters registered before those calls
MaxSignals == 3      \* signals of an adapter after which its platform is silent
MaxReactions == 1    \* reaction calls per behaviour
MaxInbound == 2      \* incoming messages per behaviour
MaxFields == 2       \* fields present in a Telegram message
MaxHeard == 3        \* lifecycle and removal calls per behaviour, with a consumer that throws
MaxDelivered == 4    \* messages a WhatsApp client delivers per behaviour
MaxServed == 2       \* requests the API server answers per behaviour
MaxStored == 3       \* messages the BlueBubbles server comes to hold
MaxDate == 2         \* the latest creation time of a message, in milliseconds
MaxPolls == 2        \* ticks of the iMessage poller per behaviour

-----------------------------------------------------------------------------
(* Strings *)

Undefined == <<"undefined">>     \* the JavaScript value undefined
Delim == ":"

\* String.prototype.split(':') : the segments between the delimiters
RECURSIVE SplitFrom(_, _, _)
SplitFrom(s, i, cur) ==
    IF i > Len(s) THEN <<cur>>
    ELSE IF s[i] = Delim THEN <<cur>> \o SplitFrom(s, i + 1, <<>>)
    ELSE SplitFrom(s, i + 1, Append(cur, s[i]))

Split(s) == SplitFrom(s, 1, <<>>)

\* array destructuring: a missing element is undefined
Nth(parts, i) == IF i <= Len(parts) THEN parts[i] ELSE Undefined

\* !x for a string or undefined
Falsy(x) == x = Undefined \/ x = <<>>

-----------------------------------------------------------------------------
(* Adapter instances *)

\* the instances the hub's registry and messaging are explored with
Insts == {"tg1", "dc1", "tg2"}

\* one more instance of each of the other adapter classes
AllInsts == Insts \cup {"wa1", "im1"}

\* the instances the API servers are explored with: two of one class, with
\* ids of their own, and one of another
ServedInsts == {"tg1", "tg3", "dc1"}

\* the adapter class of an instance
platform(a) ==
    CASE a \in {"tg1", "tg2", "tg3"} -> "telegram"
      [] a = "dc1" -> "discord"
      [] a = "wa1" -> "whatsapp"
      [] a = "im1" -> "imessage"

\* config.id : tg1 and tg2 are two instances configured with the same id,
\* tg3 has an id of its own
idOf(a) ==
    CASE a \in {"tg1", "tg2"} -> <<"a">>
      [] a = "tg3" -> <<"f">>
      [] a = "dc1" -> <<"b">>
      [] a = "wa1" -> <<"c">>
      [] a = "im1" -> <<"e">>

channelType(a) ==
    CASE platform(a) = "telegram" -> <<"t">>
      [] platform(a) = "discord" -> <<"d">>
      [] platform(a) = "whatsapp" -> <<"w">>
      [] platform(a) = "imessage" -> <<"i">>

AdapterState == {"disconnected", "connecting", "connected", "reconnecting", "error"}

isConnected(st, a) == st[a] = "connected"

generateConversationId(a, platformConversationId) ==
    channelType(a) \o <<Delim>> \o idOf(a) \o <<Delim>> \o platformConversationId

-----------------------------------------------------------------------------
(* The registry, a Map in insertion order *)

MapHas(m, id) == \E i \in 1..Len(m) : m[i].id = id

MapGet(m, id) ==
    IF MapHas(m, id) THEN (m[CHOOSE i \in 1..Len(m) : m[i].id = id]).adapter
    ELSE "none"

MapSet(m, id, a) ==
    IF MapHas(m, id)
    THEN [i \in 1..Len(m) |-> IF m[i].id = id THEN [id |-> id, adapter |-> a] ELSE m[i]]
    ELSE Append(m, [id |-> id, adapter |-> a])

MapDelete(m, id) == SelectSeq(m, LAMBDA e : e.id # id)

MapValues(m) == [i \in 1..Len(m) |-> m[i].adapter]

-----------------------------------------------------------------------------
(* Signals *)

HubSignal(sig, a, ctx) ==
    [sig |-> sig, adapterId |-> idOf(a), channelType |-> channelType(a), context |-> ctx]

HubOwnSignal(sig) ==
    [sig |-> sig, adapterId |-> <<>>, channelType |-> <<>>, context |-> ""]

\* The hub's one stream of signals is recorded as what it shows of each
\* source: the signals of each adapter id, and the hub's own, in their order.
Sources == {<<>>} \cup {idOf(a) : a \in AllInsts}

\* EventEmitter.emit on the hub
Emit(log, e) == [log EXCEPT ![e.adapterId] = Append(@, e)]

RECURSIVE Repeat(_, _, _)
Repeat(log, e, n) == IF n = 0 THEN log ELSE Repeat(Emit(log, e), e, n - 1)

\* the name under which the hub re-emits an adapter's signal
HubName(sig) == IF sig \in {"message", "event"} THEN sig ELSE "adapter:" \o sig

\* listeners that forward everything but the adapter's 'event' signal
setupAdapterListenersNoEvent(lst, a, log, sig, ctx) ==
    IF sig = "event" THEN log
    ELSE Repeat(log, HubSignal(HubName(sig), a, ctx), lst[a])

\* the listeners registerAdapter attaches: every listener set the hub attached
\* to a re-emits a's signal on the hub
setupAdapterListeners(lst, a, log, sig, ctx) ==
    Repeat(log, HubSignal(HubName(sig), a, ctx), lst[a])

\* a signal as the adapter emits it
Signal(sig, arg) == [sig |-> sig, arg |-> arg]

\* adapter.emit(sig, arg): recorded, and handed to the listeners at once
emit(lst, log, em, a, sig, arg) ==
    [hubLog |-> setupAdapterListeners(lst, a, log, sig, arg),
     emitted |-> [em EXCEPT ![a] = Append(@, Signal(sig, arg))]]

\* setState announcing connected whenever that is the new state
setStateAnnouncesAlways(st, lst, log, em, a, newState, reason) ==
    LET oldState == st[a]
        e == IF newState = "connected"
             THEN emit(lst, log, em, a, "connected", "")
             ELSE IF newState = "disconnected" /\ oldState = "connected"
             THEN emit(lst, log, em, a, "disconnected", reason)
             ELSE [hubLog |-> log, emitted |-> em]
    IN [state |-> [st EXCEPT ![a] = newState], hubLog |-> e.hubLog, emitted |-> e.emitted]

\* BaseAdapter.setState: the new state, and the logs after the emitted signal
setState(st, lst, log, em, a, newState, reason) ==
    LET oldState == st[a]
        e == IF newState = "connected" /\ oldState # "connected"
             THEN emit(lst, log, em, a, "connected", "")
             ELSE IF newState = "disconnected" /\ oldState = "connected"
             THEN emit(lst, log, em, a, "disconnected", reason)
             ELSE [hubLog |-> log, emitted |-> em]
    IN [state |-> [st EXCEPT ![a] = newState], hubLog |-> e.hubLog, emitted |-> e.emitted]

emitError(lst, log, em, a, ctx) == emit(lst, log, em, a, "error", ctx)

-----------------------------------------------------------------------------
(* Values passed to and returned by the messaging calls *)

NoOptions == [defined |-> FALSE, replyTo |-> Undefined, silent |-> Undefined]

Result(ok, err) == [success |-> ok, error |-> err]
NoResult == Result(FALSE, "unsettled")

\* content.type
ContentTypes ==
    {"text", "image", "video", "audio", "file", "location", "sticker", "reaction", "contact"}

\* the cases of the switch over content.type in sendMessage; Discord's
\* buildMessageOptions sends a placeholder for the types it has no case for
Supported(p) ==
    CASE p = "telegram" -> {"text", "image", "video", "audio", "file", "location", "sticker"}
      [] p = "whatsapp" -> {"text", "image", "video", "audio", "file", "location"}
      [] p = "imessage" -> {"text", "image", "video", "audio", "file", "reaction"}
      [] p = "discord" -> ContentTypes

\* what the platform does with the request: it accepts it, the client library
\* throws, or it answers without success (iMessage: a status other than 200;
\* Discord: no such text channel)
PlatformAnswers == {"ok", "throws", "refused"}

\* sendMessage with its catch block removed
sendMessageUncaught(p, isReady, type, answer) ==
    LET Return(r) == [outcome |-> "resolved", result |-> r] IN
    IF p = "whatsapp" /\ ~isReady THEN Return(Result(FALSE, "WhatsApp client not ready"))
    ELSE IF type \notin Supported(p) THEN Return(Result(FALSE, "Unsupported content type"))
    ELSE IF answer = "throws" THEN [outcome |-> "rejected", result |-> NoResult]
    ELSE IF answer = "refused" /\ p = "imessage"
    THEN Return(Result(FALSE, "Failed to send message"))
    ELSE IF answer = "refused" /\ p = "discord"
    THEN Return(Result(FALSE, "Channel not found or not text-based"))
    ELSE Return(Result(TRUE, ""))

\* sendMessage of the adapter class p: how its promise settles, and with what
sendMessage(p, isReady, type, answer) ==
    LET Return(r) == [outcome |-> "resolved", result |-> r] IN
    IF p = "whatsapp" /\ ~isReady THEN Return(Result(FALSE, "WhatsApp client not ready"))
    ELSE IF type \notin Supported(p) THEN Return(Result(FALSE, "Unsupported content type"))
    ELSE IF answer = "throws" THEN Return(Result(FALSE, "platform error"))
    ELSE IF answer = "refused" /\ p = "imessage"
    THEN Return(Result(FALSE, "Failed to send message"))
    ELSE IF answer = "refused" /\ p = "discord"
    THEN Return(Result(FALSE, "Channel not found or not text-based"))
    ELSE Return(Result(TRUE, ""))

\* what an adapter's sendMessage resolves with
AdapterResults ==
    {Result(TRUE, ""), Result(FALSE, "platform error"),
     Result(FALSE, "WhatsApp client not ready"), Result(FALSE, "Unsupported content type"),
     Result(FALSE, "Failed to send message"),
     Result(FALSE, "Channel not found or not text-based")}

DecimalDigits == {"0", "1", "2", "3", "4", "5", "6", "7", "8", "9"}
NaN == <<"NaN">>

\* the longest prefix of s made of decimal digits
RECURSIVE DigitPrefix(_)
DigitPrefix(s) ==
    IF s = <<>> \/ Head(s) \notin DecimalDigits THEN <<>>
    ELSE <<Head(s)>> \o DigitPrefix(Tail(s))

\* parseInt(s, 10): an optional sign and the digits after it, read up to the
\* first character that is not a digit; NaN when there is no digit to read
parseInt(s) ==
    LET signed == s # <<>> /\ Head(s) = "-"
        digits == DigitPrefix(IF signed THEN Tail(s) ELSE s)
    IN IF digits = <<>> THEN NaN
       ELSE IF signed THEN <<"-">> \o digits ELSE digits

\* replyParams of TelegramAdapter.sendMessage, spread into the request made
\* to the Bot API; without a replyTo the request has no reply_to_message_id
replyParams(options) ==
    [reply_to_message_id |->
        IF options.defined /\ options.replyTo \notin {Undefined, <<>>}
        THEN parseInt(options.replyTo) ELSE Undefined]

\* an invocation of an adapter method: by hub call op (connect, disconnect),
\* for the item-th destination of msg (sendMessage) or by the adapter's user
\* (op 0); error is the message of the Error a reaction method rejects with;
\* request is what a Telegram sendMessage adds to its request to the platform
Call(a, method, cid, content, options, op, item) ==
    [adapter |-> a, method |-> method, conversationId |-> cid, content |-> content,
     options |-> options, op |-> op, item |-> item, outcome |-> "pending",
     result |-> NoResult, error |-> <<>>,
     request |-> IF method = "sendMessage" /\ platform(a) = "telegram"
                 THEN replyParams(options) ELSE replyParams(NoOptions)]

Pending(cs, method) ==
    {i \in 1..Len(cs) : cs[i].method = method /\ cs[i].outcome = "pending"}

\* a hub API call; the fields a kind of call does not use keep these defaults
Op(kind) ==
    [kind |-> kind, status |-> "pending", adapter |-> "none", id |-> <<>>,
     conversationId |-> <<>>, content |-> "", options |-> NoOptions,
     original |-> <<>>, result |-> NoResult, call |-> 0, awaiting |-> {},
     conversationIds |-> <<>>, done |-> {}, totalSent |-> 0,
     results |-> <<>>, failures |-> <<>>]

Settle(cs, i, outcome) == [cs EXCEPT ![i].outcome = outcome]

-----------------------------------------------------------------------------
(* Construction *)

\* the poller before its first tick; lastMessageDate is the time of the
\* adapter's construction, from which the creation times are counted
InitPolling ==
    /\ lastMessageDate = 0
    /\ bluebubbles = <<>>
    /\ polls = <<>>

Init ==
    /\ InitPolling
    /\ adapters = <<>>
    /\ running = FALSE
    /\ state = [a \in AllInsts |-> "disconnected"]
    /\ listeners = [a \in AllInsts |-> 0]
    /\ readyOnce = [a \in AllInsts |-> TRUE]
    /\ readyDue = [a \in AllInsts |-> FALSE]
    /\ emitted = [a \in AllInsts |-> <<>>]
    /\ calls = <<>>
    /\ ops = <<>>
    /\ msg = [Op("none") EXCEPT !.status = "resolved"]
    /\ msgAt = [adapters |-> adapters, running |-> running, state |-> state]
    /\ sends = <<>>
    /\ sent = 0
    /\ hubLog = [s \in Sources |-> <<>>]

\* the registries of n adapters with ids of their own, in any order
RECURSIVE Registries(_)
Registries(n) ==
    IF n = 0 THEN {<<>>}
    ELSE {Append(m, [id |-> idOf(a), adapter |-> a]) :
             <<m, a>> \in {<<m, a>> \in Registries(n - 1) \X AllInsts : ~MapHas(m, idOf(a))}}

\* a running hub behind an API server: the instances registered in any order,
\* each connected or not
InitServed ==
    /\ InitPolling
    /\ adapters \in
          {[i \in 1..Len(m) |-> [id |-> idOf(m[i]), adapter |-> m[i]]] :
              m \in {m \in UNION {[1..n -> ServedInsts] : n \in 1..Cardinality(ServedInsts)} :
                        \A i, j \in 1..Len(m) : m[i] = m[j] => i = j}}
    /\ running = TRUE
    /\ state \in {st \in [AllInsts \cup ServedInsts -> {"connected", "disconnected"}] :
                     \A a \in DOMAIN st :
                        st[a] = "connected" => \E i \in 1..Len(adapters) : adapters[i].adapter = a}
    /\ listeners = [a \in AllInsts \cup ServedInsts |->
                       IF \E i \in 1..Len(adapters) : adapters[i].adapter = a THEN 1 ELSE 0]
    /\ readyOnce = [a \in AllInsts \cup ServedInsts |->
                       state[a] # "connected" \/ platform(a) # "discord"]
    /\ readyDue = [a \in AllInsts \cup ServedInsts |-> FALSE]
    /\ emitted = [a \in AllInsts \cup ServedInsts |->
                     IF state[a] = "connected" THEN <<Signal("connected", "")>> ELSE <<>>]
    /\ calls = <<>>
    /\ ops = <<>>
    /\ msg = [Op("none") EXCEPT !.status = "resolved"]
    /\ msgAt = [adapters |-> adapters, running |-> running, state |-> state]
    /\ sends = <<>>
    /\ sent = 0
    /\ hubLog = [s \in Sources \cup {idOf(a) : a \in ServedInsts} |->
                    IF \E a \in DOMAIN state : idOf(a) = s /\ state[a] = "connected"
                    THEN <<HubSignal("adapter:connected",
                                     CHOOSE a \in DOMAIN state :
                                        idOf(a) = s /\ state[a] = "connected", "")>>
                    ELSE <<>>]

\* a hub that is not running, after up to MaxAdapters registerAdapter calls
InitWired ==
    /\ InitPolling
    /\ adapters \in UNION {Registries(n) : n \in 1..MaxAdapters}
    /\ running = FALSE
    /\ state = [a \in AllInsts |-> "disconnected"]
    /\ listeners = [a \in AllInsts |->
                       IF \E i \in 1..Len(adapters) : adapters[i].adapter = a THEN 1 ELSE 0]
    /\ readyOnce = [a \in AllInsts |-> TRUE]
    /\ readyDue = [a \in AllInsts |-> FALSE]
    /\ emitted = [a \in AllInsts |-> <<>>]
    /\ calls = <<>>
    /\ ops = <<>>
    /\ msg = [Op("none") EXCEPT !.status = "resolved"]
    /\ msgAt = [adapters |-> adapters, running |-> running, state |-> state]
    /\ sends = <<>>
    /\ sent = 0
    /\ hubLog = [s \in Sources |-> <<>>]

\* a running hub whose adapters, up to MaxAdapters of them, are connected
InitConnected ==
    /\ InitPolling
    /\ adapters \in UNION {Registries(n) : n \in 1..MaxAdapters}
    /\ running = TRUE
    /\ state = [a \in AllInsts |->
                   IF \E i \in 1..Len(adapters) : adapters[i].adapter = a
                   THEN "connected" ELSE "disconnected"]
    /\ listeners = [a \in AllInsts |->
                       IF \E i \in 1..Len(adapters) : adapters[i].adapter = a THEN 1 ELSE 0]
    /\ readyOnce = [a \in AllInsts |-> state[a] # "connected" \/ platform(a) # "discord"]
    /\ readyDue = [a \in AllInsts |-> FALSE]
    /\ emitted = [a \in AllInsts |->
                     IF state[a] = "connected" THEN <<Signal("connected", "")>> ELSE <<>>]
    /\ calls = <<>>
    /\ ops = <<>>
    /\ msg = [Op("none") EXCEPT !.status = "resolved"]
    /\ msgAt = [adapters |-> adapters, running |-> running, state |-> state]
    /\ sends = <<>>
    /\ sent = 0
    /\ hubLog = [s \in Sources |->
                    IF s = <<>> THEN <<HubOwnSignal("started")>>
                    ELSE IF \E i \in 1..Len(adapters) : adapters[i].id = s
                    THEN <<HubSignal("adapter:connected", MapGet(adapters, s), "")>>
                    ELSE <<>>]

-----------------------------------------------------------------------------
(* Adapter management *)

\* registerAdapter without the has() check: Map.set replaces the registration
registerAdapterReplace(adp, run, lst, a) ==
    [threw |-> FALSE,
     adapters |-> MapSet(adp, idOf(a), a),
     listeners |-> [lst EXCEPT ![a] = @ + 1],
     connect |-> run]

\* registerAdapter connecting the new adapter whether or not the hub runs
registerAdapterConnectsAlways(adp, run, lst, a) ==
    IF MapHas(adp, idOf(a))
    THEN [threw |-> TRUE, adapters |-> adp, listeners |-> lst, connect |-> FALSE]
    ELSE [threw |-> FALSE,
          adapters |-> MapSet(adp, idOf(a), a),
          listeners |-> [lst EXCEPT ![a] = @ + 1],
          connect |-> TRUE]

\* the outcome of registerAdapter(a): whether it throws, and the registry and
\* listeners it leaves; connect says whether a.connect() is issued
registerAdapterEffect(adp, run, lst, a) ==
    IF MapHas(adp, idOf(a))
    THEN [threw |-> TRUE, adapters |-> adp, listeners |-> lst, connect |-> FALSE]
    ELSE [threw |-> FALSE,
          adapters |-> MapSet(adp, idOf(a), a),
          listeners |-> [lst EXCEPT ![a] = @ + 1],
          connect |-> run]

registerAdapter(a) ==
    /\ LET e == registerAdapterEffect(adapters, running, listeners, a)
           k == Len(ops) + 1
       IN /\ adapters' = e.adapters
          /\ listeners' = e.listeners
          /\ ops' = Append(ops, [Op("registerAdapter") EXCEPT
                                    !.adapter = a, !.id = idOf(a),
                                    !.status = IF e.threw THEN "threw" ELSE "returned"])
          /\ IF e.connect
             THEN /\ state' = setState(state, listeners', hubLog, emitted, a, "connecting", "").state
                  /\ calls' = Append(calls, Call(a, "connect", <<>>, "", NoOptions, k, 0))
             ELSE UNCHANGED <<state, calls>>
    /\ UNCHANGED <<running, readyOnce, readyDue, hubLog, emitted>>

\* unregisterAdapter without removeAllListeners
unregisterAdapterKeepsListeners(id) ==
    /\ LET a == MapGet(adapters, id)
           k == Len(ops) + 1
           op == [Op("unregisterAdapter") EXCEPT !.id = id, !.adapter = a]
       IN IF a = "none"
          THEN /\ ops' = Append(ops, [op EXCEPT !.status = "resolved"])
               /\ UNCHANGED <<adapters, calls>>
          ELSE IF isConnected(state, a)
          THEN /\ calls' = Append(calls, Call(a, "disconnect", <<>>, "", NoOptions, k, 0))
               /\ ops' = Append(ops, [op EXCEPT !.call = Len(calls) + 1])
               /\ UNCHANGED adapters
          ELSE /\ adapters' = MapDelete(adapters, id)
               /\ ops' = Append(ops, [op EXCEPT !.status = "resolved"])
               /\ UNCHANGED calls
    /\ UNCHANGED <<running, state, listeners, readyOnce, readyDue, hubLog, emitted>>

\* unregisterAdapter(adapterId), up to its await or, with nothing to await, its end
unregisterAdapter(id) ==
    /\ LET a == MapGet(adapters, id)
           k == Len(ops) + 1
           op == [Op("unregisterAdapter") EXCEPT !.id = id, !.adapter = a]
       IN IF a = "none"
          THEN /\ ops' = Append(ops, [op EXCEPT !.status = "resolved"])
               /\ UNCHANGED <<adapters, listeners, calls>>
          ELSE IF isConnected(state, a)
          THEN /\ calls' = Append(calls, Call(a, "disconnect", <<>>, "", NoOptions, k, 0))
               /\ ops' = Append(ops, [op EXCEPT !.call = Len(calls) + 1])
               /\ UNCHANGED <<adapters, listeners>>
          ELSE /\ listeners' = [listeners EXCEPT ![a] = 0]
               /\ adapters' = MapDelete(adapters, id)
               /\ ops' = Append(ops, [op EXCEPT !.status = "resolved"])
               /\ UNCHANGED calls
    /\ UNCHANGED <<running, state, readyOnce, readyDue, hubLog, emitted>>

-----------------------------------------------------------------------------
(* Lifecycle *)

\* calls appended by invoking method on every adapter of as, in order
RECURSIVE CallAll(_, _, _, _)
CallAll(cs, as, method, k) ==
    IF as = <<>> THEN cs
    ELSE CallAll(Append(cs, Call(Head(as), method, <<>>, "", NoOptions, k, 0)),
                 Tail(as), method, k)

\* connect() runs up to its first await in the caller's turn: setState('connecting')
RECURSIVE ConnectingAll(_, _)
ConnectingAll(st, as) ==
    IF as = <<>> THEN st
    ELSE ConnectingAll(setState(st, listeners, hubLog, emitted, Head(as), "connecting", "").state,
                       Tail(as))

\* start() without the running check
startUnguarded ==
    /\ LET k == Len(ops) + 1
           as == MapValues(adapters)
       IN /\ state' = ConnectingAll(state, as)
          /\ calls' = CallAll(calls, as, "connect", k)
          /\ ops' = Append(ops, [Op("start") EXCEPT
                                    !.awaiting = Len(calls) + 1 .. Len(calls) + Len(as)])
    /\ UNCHANGED <<adapters, running, listeners, readyOnce, readyDue, hubLog, emitted>>

\* start(), up to Promise.all
start ==
    /\ LET k == Len(ops) + 1
           as == MapValues(adapters)
       IN IF running
          THEN /\ ops' = Append(ops, [Op("start") EXCEPT !.status = "resolved"])
               /\ UNCHANGED <<state, calls>>
          ELSE /\ state' = ConnectingAll(state, as)
               /\ calls' = CallAll(calls, as, "connect", k)
               /\ ops' = Append(ops, [Op("start") EXCEPT
                                         !.awaiting = Len(calls) + 1 .. Len(calls) + Len(as)])
    /\ UNCHANGED <<adapters, running, listeners, readyOnce, readyDue, hubLog, emitted>>

\* stop() without the running check
stopUnguarded ==
    /\ LET k == Len(ops) + 1
           as == MapValues(adapters)
       IN /\ calls' = CallAll(calls, as, "disconnect", k)
          /\ ops' = Append(ops, [Op("stop") EXCEPT
                                    !.awaiting = Len(calls) + 1 .. Len(calls) + Len(as)])
    /\ UNCHANGED <<adapters, running, state, listeners, readyOnce, readyDue, hubLog, emitted>>

\* stop(), up to Promise.all
stop ==
    /\ LET k == Len(ops) + 1
           as == MapValues(adapters)
       IN IF ~running
          THEN /\ ops' = Append(ops, [Op("stop") EXCEPT !.status = "resolved"])
               /\ UNCHANGED calls
          ELSE /\ calls' = CallAll(calls, as, "disconnect", k)
               /\ ops' = Append(ops, [Op("stop") EXCEPT
                                         !.awaiting = Len(calls) + 1 .. Len(calls) + Len(as)])
    /\ UNCHANGED <<adapters, running, state, listeners, readyOnce, readyDue, hubLog, emitted>>

AllSettled(k) == \A i \in ops[k].awaiting : calls[i].outcome # "pending"

\* start() going on as soon as one connect() has settled (Promise.race)
startFinishFirst(k) ==
    /\ ops[k].kind = "start" /\ ops[k].status = "pending"
    /\ \E i \in ops[k].awaiting : calls[i].outcome # "pending"
    /\ running' = TRUE
    /\ hubLog' = Emit(hubLog, HubOwnSignal("started"))
    /\ ops' = [ops EXCEPT ![k].status = "resolved"]
    /\ UNCHANGED <<adapters, state, listeners, readyOnce, readyDue, calls, emitted>>

\* stop() going on as soon as one disconnect() has settled (Promise.race)
stopFinishFirst(k) ==
    /\ ops[k].kind = "stop" /\ ops[k].status = "pending"
    /\ \E i \in ops[k].awaiting : calls[i].outcome # "pending"
    /\ running' = FALSE
    /\ hubLog' = Emit(hubLog, HubOwnSignal("stopped"))
    /\ ops' = [ops EXCEPT ![k].status = "resolved"]
    /\ UNCHANGED <<adapters, state, listeners, readyOnce, readyDue, calls, emitted>>

\* start() after Promise.all: mark running, emit started
startFinish(k) ==
    /\ ops[k].kind = "start" /\ ops[k].status = "pending"
    /\ AllSettled(k)
    /\ running' = TRUE
    /\ hubLog' = Emit(hubLog, HubOwnSignal("started"))
    /\ ops' = [ops EXCEPT ![k].status = "resolved"]
    /\ UNCHANGED <<adapters, state, listeners, readyOnce, readyDue, calls, emitted>>

\* stop() after Promise.all: mark not running, emit stopped
stopFinish(k) ==
    /\ ops[k].kind = "stop" /\ ops[k].status = "pending"
    /\ AllSettled(k)
    /\ running' = FALSE
    /\ hubLog' = Emit(hubLog, HubOwnSignal("stopped"))
    /\ ops' = [ops EXCEPT ![k].status = "resolved"]
    /\ UNCHANGED <<adapters, state, listeners, readyOnce, readyDue, calls, emitted>>

-----------------------------------------------------------------------------
(* The adapters' connect() and disconnect(), from their await on *)

\* Discord and WhatsApp: connect() leaves it to the client's 'ready' event to
\* set the state
ReadyDriven(a) == platform(a) \in {"discord", "whatsapp"}

\* the hub's handler of a rejected connect(): start()'s catch, registerAdapter's .catch
connectCatch(log, a) == Emit(log, HubSignal("adapter:error", a, "connect"))

\* stop()'s catch of a rejected disconnect()
disconnectCatch(log, a) == Emit(log, HubSignal("adapter:error", a, "disconnect"))

\* the platform call of connect() succeeded.  Telegram, iMessage:
\* setState('connected'), Telegram's poller still owing its onStart callback;
\* Discord, WhatsApp: the client's 'ready' event will set the state
connectResolve(i) ==
    /\ i \in Pending(calls, "connect")
    /\ LET a == calls[i].adapter
           s == setState(state, listeners, hubLog, emitted, a, "connected", "")
       IN IF ReadyDriven(a)
          THEN /\ readyDue' = [readyDue EXCEPT ![a] = TRUE]
               /\ UNCHANGED <<state, hubLog, emitted>>
          ELSE /\ state' = s.state
               /\ hubLog' = s.hubLog
               /\ emitted' = s.emitted
               /\ readyDue' = [readyDue EXCEPT ![a] = platform(a) = "telegram"]
    /\ calls' = Settle(calls, i, "resolved")
    /\ UNCHANGED <<adapters, running, listeners, readyOnce, ops>>

\* the platform call of connect() succeeded and a listener of the hub's
\* user on adapter:connected throws.  Telegram, iMessage: setState('connected')
\* sets the state and emits 'connected'; the hub's first listener re-emits it,
\* the exception of the user's listener leaves emit and setState and is caught
\* by connect(): setState('error'), emitError, throw; the hub's catch then
\* emits adapter:error.  Telegram's poller, started before, owes its onStart
connectResolveListenerThrows(i) ==
    /\ i \in Pending(calls, "connect")
    /\ LET a == calls[i].adapter
           heard == Emit(hubLog, HubSignal("adapter:connected", a, ""))
           announced == [emitted EXCEPT ![a] = Append(@, Signal("connected", ""))]
           s == setState([state EXCEPT ![a] = "connected"], listeners, heard, announced,
                         a, "error", "")
           e == emitError(listeners, s.hubLog, s.emitted, a, "connect")
       IN /\ ~ReadyDriven(a)
          /\ state[a] # "connected"
          /\ listeners[a] > 0
          /\ state' = s.state
          /\ hubLog' = connectCatch(e.hubLog, a)
          /\ emitted' = e.emitted
          /\ readyDue' = [readyDue EXCEPT ![a] = platform(a) = "telegram"]
    /\ calls' = Settle(calls, i, "rejected")
    /\ UNCHANGED <<adapters, running, listeners, readyOnce, ops>>

\* a rejected connect() that the hub does not catch: the caller's promise rejects
connectRejectUncaught(i) ==
    /\ i \in Pending(calls, "connect")
    /\ LET a == calls[i].adapter
           s == setState(state, listeners, hubLog, emitted, a, "error", "")
           e == emitError(listeners, s.hubLog, s.emitted, a, "connect")
       IN /\ state' = s.state
          /\ hubLog' = e.hubLog
          /\ emitted' = e.emitted
    /\ calls' = Settle(calls, i, "rejected")
    /\ ops' = [ops EXCEPT ![calls[i].op].status = "rejected"]
    /\ UNCHANGED <<adapters, running, listeners, readyOnce, readyDue>>

\* the platform call of connect() failed: setState('error'), emitError, throw;
\* the hub's catch then emits adapter:error
connectReject(i) ==
    /\ i \in Pending(calls, "connect")
    /\ LET a == calls[i].adapter
           s == setState(state, listeners, hubLog, emitted, a, "error", "")
           e == emitError(listeners, s.hubLog, s.emitted, a, "connect")
       IN /\ state' = s.state
          /\ hubLog' = connectCatch(e.hubLog, a)
          /\ emitted' = e.emitted
    /\ calls' = Settle(calls, i, "rejected")
    /\ UNCHANGED <<adapters, running, listeners, readyOnce, readyDue, ops>>

\* the client's 'ready' event: handled once per client by Discord
\* (client.once), every time by WhatsApp (client.on)
ready(a) ==
    /\ ReadyDriven(a) /\ readyDue[a]
    /\ readyDue' = [readyDue EXCEPT ![a] = FALSE]
    /\ IF readyOnce[a]
       THEN LET s == setState(state, listeners, hubLog, emitted, a, "connected", "")
            IN /\ state' = s.state
               /\ hubLog' = s.hubLog
               /\ emitted' = s.emitted
               /\ readyOnce' = [readyOnce EXCEPT ![a] = platform(a) # "discord"]
       ELSE UNCHANGED <<state, hubLog, emitted, readyOnce>>
    /\ UNCHANGED <<adapters, running, listeners, calls, ops>>

\* the platform teardown of disconnect() succeeded: setState('disconnected');
\* an awaiting unregisterAdapter then detaches the listeners and deletes the id
disconnectResolve(i) ==
    /\ i \in Pending(calls, "disconnect")
    /\ LET a == calls[i].adapter
           k == calls[i].op
           s == setState(state, listeners, hubLog, emitted, a, "disconnected", "")
       IN /\ state' = s.state
          /\ hubLog' = s.hubLog
          /\ emitted' = s.emitted
          /\ readyDue' = [readyDue EXCEPT ![a] = FALSE]
          /\ IF ops[k].kind = "unregisterAdapter"
             THEN /\ listeners' = [listeners EXCEPT ![a] = 0]
                  /\ adapters' = MapDelete(adapters, ops[k].id)
                  /\ ops' = [ops EXCEPT ![k].status = "resolved"]
             ELSE UNCHANGED <<listeners, adapters, ops>>
    /\ calls' = Settle(calls, i, "resolved")
    /\ UNCHANGED <<running, readyOnce>>

\* the platform teardown failed (iMessage has none that can): emitError,
\* throw; stop() catches and emits adapter:error, unregisterAdapter rejects
disconnectReject(i) ==
    /\ i \in Pending(calls, "disconnect")
    /\ platform(calls[i].adapter) # "imessage"
    /\ LET a == calls[i].adapter
           k == calls[i].op
           e == emitError(listeners, hubLog, emitted, a, "disconnect")
       IN /\ emitted' = e.emitted
          /\ IF ops[k].kind = "unregisterAdapter"
             THEN /\ hubLog' = e.hubLog
                  /\ ops' = [ops EXCEPT ![k].status = "rejected"]
             ELSE /\ hubLog' = disconnectCatch(e.hubLog, a)
                  /\ UNCHANGED ops
    /\ calls' = Settle(calls, i, "rejected")
    /\ UNCHANGED <<adapters, running, state, listeners, readyOnce, readyDue>>

-----------------------------------------------------------------------------
(* What the platforms do of their own accord *)

\* Telegram: the poller's onStart callback, setState('connected') once more
onStart(a) ==
    /\ platform(a) = "telegram" /\ readyDue[a]
    /\ readyDue' = [readyDue EXCEPT ![a] = FALSE]
    /\ LET s == setState(state, listeners, hubLog, emitted, a, "connected", "")
       IN /\ state' = s.state
          /\ hubLog' = s.hubLog
          /\ emitted' = s.emitted
    /\ UNCHANGED <<adapters, running, listeners, readyOnce, calls, ops>>

\* the client of a has been initialized and not torn down
Live(a) == state[a] \in {"connecting", "connected", "error"}

\* the 'auth_failure' handler without its emitError
auth_failureSilent(a) ==
    /\ platform(a) = "whatsapp" /\ Live(a)
    /\ LET s == setState(state, listeners, hubLog, emitted, a, "error", "")
       IN /\ state' = s.state
          /\ hubLog' = s.hubLog
          /\ emitted' = s.emitted
    /\ UNCHANGED <<adapters, running, listeners, readyOnce, readyDue, calls, ops>>

\* WhatsApp: the client's 'auth_failure' event
auth_failure(a) ==
    /\ platform(a) = "whatsapp" /\ Live(a)
    /\ LET s == setState(state, listeners, hubLog, emitted, a, "error", "")
           e == emitError(listeners, s.hubLog, s.emitted, a, "auth")
       IN /\ state' = s.state
          /\ hubLog' = e.hubLog
          /\ emitted' = e.emitted
    /\ UNCHANGED <<adapters, running, listeners, readyOnce, readyDue, calls, ops>>

\* WhatsApp: the client's 'disconnected' event
disconnected(a, reason) ==
    /\ platform(a) = "whatsapp" /\ Live(a)
    /\ LET s == setState(state, listeners, hubLog, emitted, a, "disconnected", reason)
       IN /\ state' = s.state
          /\ hubLog' = s.hubLog
          /\ emitted' = s.emitted
    /\ UNCHANGED <<adapters, running, listeners, readyOnce, readyDue, calls, ops>>

\* iMessage: a poll of the server failed
pollingError(a) ==
    /\ platform(a) = "imessage" /\ state[a] = "connected"
    /\ LET e == emitError(listeners, hubLog, emitted, a, "polling")
       IN /\ hubLog' = e.hubLog
          /\ emitted' = e.emitted
    /\ UNCHANGED <<adapters, running, state, listeners, readyOnce, readyDue, calls, ops>>

\* the handler of an incoming platform message: emit('message'), emit('event')
receive(a, m) ==
    /\ state[a] = "connected"
    /\ LET e == emit(listeners, hubLog, emitted, a, "message", m)
           f == emit(listeners, e.hubLog, e.emitted, a, "event", m)
       IN /\ hubLog' = f.hubLog
          /\ emitted' = f.emitted
    /\ UNCHANGED <<adapters, running, state, listeners, readyOnce, readyDue, calls, ops>>

-----------------------------------------------------------------------------
(* The iMessage poller *)

\* a message as the BlueBubbles server returns it
BBMessage(guid, dateCreated, isFromMe) ==
    [guid |-> guid, dateCreated |-> dateCreated, isFromMe |-> isFromMe]

\* the server comes to hold one more message, created no earlier than those
\* it holds; two messages can have the same creation time
store(dateCreated, isFromMe) ==
    /\ Len(bluebubbles) < MaxStored
    /\ \A n \in 1..Len(bluebubbles) : bluebubbles[n].dateCreated <= dateCreated
    /\ bluebubbles' = Append(bluebubbles,
                             BBMessage("g" \o ToString(Len(bluebubbles) + 1),
                                       dateCreated, isFromMe))
    /\ UNCHANGED <<lifecycle, lastMessageDate, polls>>

\* a tick of the interval, up to its await: the query is sent with
\* after: this.lastMessageDate
pollTick(a) ==
    /\ platform(a) = "imessage" /\ state[a] = "connected"
    /\ polls' = Append(polls, [adapter |-> a, after |-> lastMessageDate, data |-> <<>>,
                               status |-> "sent"])
    /\ UNCHANGED <<lifecycle, lastMessageDate, bluebubbles>>

\* the server answers a query with the messages created after the time asked
\* for, oldest first; whether it counts that time itself in is the server's
\* matter.  (The limit of 50 is not reached.)
query(i, inclusive) ==
    /\ i \in 1..Len(polls) /\ polls[i].status = "sent"
    /\ polls' = [polls EXCEPT
          ![i].status = "answered",
          ![i].data = SelectSeq(bluebubbles,
                                LAMBDA m : \/ m.dateCreated > polls[i].after
                                           \/ inclusive /\ m.dateCreated = polls[i].after)]
    /\ UNCHANGED <<lifecycle, lastMessageDate, bluebubbles>>

\* the loop over response.data: a message created after lastMessageDate
\* moves it on and, unless it is from this account, is emitted
RECURSIVE pollLoop(_, _, _, _, _, _)
pollLoop(data, last, lst, log, em, a) ==
    IF data = <<>> THEN [lastMessageDate |-> last, hubLog |-> log, emitted |-> em]
    ELSE LET m == Head(data)
             e == emit(lst, log, em, a, "message", m.guid)
             f == emit(lst, e.hubLog, e.emitted, a, "event", m.guid)
         IN IF m.dateCreated > last
            THEN IF ~m.isFromMe
                 THEN pollLoop(Tail(data), m.dateCreated, lst, f.hubLog, f.emitted, a)
                 ELSE pollLoop(Tail(data), m.dateCreated, lst, log, em, a)
            ELSE pollLoop(Tail(data), last, lst, log, em, a)

\* the tick goes on after its await with the server's answer
pollResume(i) ==
    /\ i \in 1..Len(polls) /\ polls[i].status = "answered"
    /\ LET r == pollLoop(polls[i].data, lastMessageDate, listeners, hubLog, emitted,
                         polls[i].adapter)
       IN /\ lastMessageDate' = r.lastMessageDate
          /\ hubLog' = r.hubLog
          /\ emitted' = r.emitted
    /\ polls' = [polls EXCEPT ![i].status = "done"]
    /\ UNCHANGED <<adapters, running, state, listeners, readyOnce, readyDue, calls, ops,
                   bluebubbles>>

\* the query fails: the tick's catch emits the error
pollReject(i) ==
    /\ i \in 1..Len(polls) /\ polls[i].status = "sent"
    /\ LET e == emitError(listeners, hubLog, emitted, polls[i].adapter, "polling")
       IN /\ hubLog' = e.hubLog
          /\ emitted' = e.emitted
    /\ polls' = [polls EXCEPT ![i].status = "failed"]
    /\ UNCHANGED <<adapters, running, state, listeners, readyOnce, readyDue, calls, ops,
                   lastMessageDate, bluebubbles>>

-----------------------------------------------------------------------------
(* Inbound messages *)

\* the fields of a Telegram message the adapter looks at, and two it does not
TelegramFields ==
    {"text", "photo", "video", "voice", "audio", "document", "location", "sticker",
     "contact", "poll"}

\* msg.type of a WhatsApp message
WhatsAppTypes == {"chat", "vcard", "sticker", "ptt", "poll_creation"}

\* MIME types, as <<type, subtype>>
MimeTypes ==
    {<<"image", "png">>, <<"video", "mp4">>, <<"audio", "ogg">>, <<"application", "pdf">>,
     <<"text", "plain">>}

\* Discord: attachment.contentType is null when the platform does not know it
NoMime == <<"null">>

\* String.prototype.startsWith(type + '/')
StartsWith(mime, type) == mime[1] = type

\* the sets of at most n of the fields
Few(fields, n) == {h \in SUBSET fields : Cardinality(h) <= n}

\* a platform message: the fields it has, and the MIME type of its first
\* attachment and its msg.type where the platform has them
Payload(has, mime, type) == [has |-> has, mime |-> mime, type |-> type]

\* the messages the platform of an adapter class delivers
InboundPayloads(p) ==
    CASE p = "telegram" ->
           {Payload(h, NoMime, "") : h \in Few(TelegramFields, MaxFields)}
      [] p = "whatsapp" ->
           {Payload(h, t, y) :
               h \in {h \in SUBSET {"hasMedia", "media", "location", "isStatus"} :
                         "media" \in h => "hasMedia" \in h},
               t \in MimeTypes, y \in WhatsAppTypes}
      [] p = "discord" ->
           {Payload(h, t, "") :
               h \in SUBSET {"attachments", "stickers", "own"}, t \in MimeTypes \cup {NoMime}}
      [] p = "imessage" ->
           {Payload(h, t, "") :
               h \in SUBSET {"attachments", "tapback", "isFromMe"}, t \in MimeTypes}

\* the variant for an attachment of a MIME type
ByMime(mime) ==
    IF StartsWith(mime, "image") THEN "image"
    ELSE IF StartsWith(mime, "video") THEN "video"
    ELSE IF StartsWith(mime, "audio") THEN "audio"
    ELSE "file"

\* extractContent answering a message of no shape it knows with no variant
extractContentNoFallback(p, m) ==
    CASE p = "telegram" ->
           IF "text" \in m.has THEN "text"
           ELSE IF "photo" \in m.has THEN "image"
           ELSE IF "video" \in m.has THEN "video"
           ELSE IF "voice" \in m.has THEN "audio"
           ELSE IF "audio" \in m.has THEN "audio"
           ELSE IF "document" \in m.has THEN "file"
           ELSE IF "location" \in m.has THEN "location"
           ELSE IF "sticker" \in m.has THEN "sticker"
           ELSE "unsupported"
      [] p = "whatsapp" ->
           IF "hasMedia" \in m.has /\ "media" \in m.has THEN ByMime(m.mime)
           ELSE IF "location" \in m.has THEN "location"
           ELSE IF m.type = "vcard" THEN "contact"
           ELSE IF m.type = "sticker" THEN "sticker"
           ELSE "unsupported"
      [] p = "discord" ->
           IF "attachments" \in m.has
           THEN ByMime(IF m.mime = NoMime THEN <<"application", "octet-stream">> ELSE m.mime)
           ELSE IF "stickers" \in m.has THEN "sticker"
           ELSE "unsupported"
      [] p = "imessage" ->
           IF "attachments" \in m.has THEN ByMime(m.mime)
           ELSE IF "tapback" \in m.has THEN "reaction"
           ELSE "unsupported"

\* extractContent of the adapter class p: the type of the content it returns;
\* WhatsApp's has awaited downloadMedia(), which gave the media or undefined
extractContent(p, m) ==
    CASE p = "telegram" ->
           IF "text" \in m.has THEN "text"
           ELSE IF "photo" \in m.has THEN "image"
           ELSE IF "video" \in m.has THEN "video"
           ELSE IF "voice" \in m.has THEN "audio"
           ELSE IF "audio" \in m.has THEN "audio"
           ELSE IF "document" \in m.has THEN "file"
           ELSE IF "location" \in m.has THEN "location"
           ELSE IF "sticker" \in m.has THEN "sticker"
           ELSE "text"
      [] p = "whatsapp" ->
           IF "hasMedia" \in m.has /\ "media" \in m.has THEN ByMime(m.mime)
           ELSE IF "location" \in m.has THEN "location"
           ELSE IF m.type = "vcard" THEN "contact"
           ELSE IF m.type = "sticker" THEN "sticker"
           ELSE "text"
      [] p = "discord" ->
           IF "attachments" \in m.has
           THEN ByMime(IF m.mime = NoMime THEN <<"application", "octet-stream">> ELSE m.mime)
           ELSE IF "stickers" \in m.has THEN "sticker"
           ELSE "text"
      [] p = "imessage" ->
           IF "attachments" \in m.has THEN ByMime(m.mime)
           ELSE IF "tapback" \in m.has THEN "reaction"
           ELSE "text"

\* the messages a handler returns on without emitting: WhatsApp's status
\* messages, Discord's by the bot itself, iMessage's sent from this account
Skipped(p, m) ==
    \/ p = "whatsapp" /\ "isStatus" \in m.has
    \/ p = "discord" /\ "own" \in m.has
    \/ p = "imessage" /\ "isFromMe" \in m.has

\* the signals the message handler of the adapter class emits for a message
onMessage(p, m) ==
    IF Skipped(p, m) THEN <<>>
    ELSE <<Signal("message", extractContent(p, m)), Signal("event", extractContent(p, m))>>

\* the platform delivers message m to a connected adapter
inbound(a, m) ==
    /\ onMessage(platform(a), m) # <<>>
    /\ receive(a, onMessage(platform(a), m)[1].arg)

\* the transformMessage calls made for the messages delivered to a, in order
Transformations(cs, a) ==
    SelectSeq(cs, LAMBDA c : c.method = "transformMessage" /\ c.adapter = a)

\* WhatsApp's 'message' handler up to its await, for a message that is not a
\* status message: transformMessage(msg) is called and left to its lookups;
\* the n-th message delivered to the adapter is named by n
messageHandler(a) ==
    /\ platform(a) = "whatsapp" /\ Live(a)
    /\ LET m == "m" \o ToString(Len(Transformations(calls, a)) + 1)
       IN calls' = Append(calls, Call(a, "transformMessage", <<>>, m, NoOptions, 0, 0))
    /\ UNCHANGED <<adapters, running, state, listeners, readyOnce, readyDue, ops,
                   hubLog, emitted>>

\* the lookups and the download of one message are done: the handler goes on
\* after its await with emit('message'), emit('event')
transformMessageResolve(i) ==
    /\ i \in Pending(calls, "transformMessage")
    /\ LET a == calls[i].adapter
           e == emit(listeners, hubLog, emitted, a, "message", calls[i].content)
           f == emit(listeners, e.hubLog, e.emitted, a, "event", calls[i].content)
       IN /\ hubLog' = f.hubLog
          /\ emitted' = f.emitted
    /\ calls' = Settle(calls, i, "resolved")
    /\ UNCHANGED <<adapters, running, state, listeners, readyOnce, readyDue, ops>>

\* a lookup or the download throws: the handler's promise rejects, unobserved
transformMessageReject(i) ==
    /\ i \in Pending(calls, "transformMessage")
    /\ calls' = Settle(calls, i, "rejected")
    /\ UNCHANGED <<adapters, running, state, listeners, readyOnce, readyDue, ops,
                   hubLog, emitted>>

-----------------------------------------------------------------------------
(* Reactions *)

Reactions == {"addReaction", "removeReaction"}

\* the reaction methods an adapter class defines itself
Overrides(p) ==
    CASE p = "telegram" -> Reactions
      [] p = "discord" -> Reactions
      [] p = "imessage" -> Reactions
      [] p = "whatsapp" -> {"addReaction"}

\* the template `Reactions not supported by ${this.channelType}`
NotSupportedBy(a) == <<"Reactions ", "not supported", " by ">> \o channelType(a)

\* a default reaction method that does nothing, as sendTypingIndicator's does
removeReactionNoOp(a) == [outcome |-> "resolved", error |-> <<>>]

\* BaseAdapter.addReaction
addReaction(a) == [outcome |-> "rejected", error |-> NotSupportedBy(a)]

\* BaseAdapter.removeReaction
removeReaction(a) == [outcome |-> "rejected", error |-> NotSupportedBy(a)]

\* how a.addReaction or a.removeReaction settles: the class's own method
\* awaits its platform call, WhatsApp's addReaction always throws, and a
\* method the class does not define is BaseAdapter's
reaction(a, method, answer) ==
    IF method \notin Overrides(platform(a))
    THEN IF method = "addReaction" THEN addReaction(a) ELSE removeReaction(a)
    ELSE IF platform(a) = "whatsapp"
    THEN [outcome |-> "rejected", error |-> <<"Reactions require original message reference">>]
    ELSE IF answer = "throws" THEN [outcome |-> "rejected", error |-> <<"platform error">>]
    ELSE [outcome |-> "resolved", error |-> <<>>]

\* the adapter's user calls a reaction method of a registered adapter
React(a, method, answer) ==
    /\ \E i \in 1..Len(adapters) : adapters[i].adapter = a
    /\ LET r == reaction(a, method, answer)
       IN calls' = Append(calls, [Call(a, method, <<>>, "", NoOptions, 0, 0) EXCEPT
                                     !.outcome = r.outcome, !.error = r.error])
    /\ UNCHANGED <<adapters, running, state, listeners, readyOnce, readyDue, ops, hubLog,
                   emitted>>

-----------------------------------------------------------------------------
(* Messaging *)

InvalidFormat == Result(FALSE, "Invalid conversation ID format")
AdapterNotFound == Result(FALSE, "Adapter not found")
NotConnected == Result(FALSE, "Adapter is not connected")

\* send, passing the whole composite id on to the adapter
sendWholeId(adp, st, conversationId) ==
    LET parts == Split(conversationId)
        adapterId == Nth(parts, 2)
        platformConversationId == Nth(parts, 3)
        adapter == MapGet(adp, adapterId)
        Return(r) == [adapter |-> "none", platformConversationId |-> <<>>, result |-> r]
    IN IF Falsy(adapterId) \/ Falsy(platformConversationId) THEN Return(InvalidFormat)
       ELSE IF adapter = "none" THEN Return(AdapterNotFound)
       ELSE IF ~isConnected(st, adapter) THEN Return(NotConnected)
       ELSE [adapter |-> adapter, platformConversationId |-> conversationId,
             result |-> NoResult]

\* send, reporting an unknown adapter as a malformed id
sendUnknownAsInvalid(adp, st, conversationId) ==
    LET parts == Split(conversationId)
        adapterId == Nth(parts, 2)
        platformConversationId == Nth(parts, 3)
        adapter == MapGet(adp, adapterId)
        Return(r) == [adapter |-> "none", platformConversationId |-> <<>>, result |-> r]
    IN IF Falsy(adapterId) \/ Falsy(platformConversationId) \/ adapter = "none"
       THEN Return(InvalidFormat)
       ELSE IF ~isConnected(st, adapter) THEN Return(NotConnected)
       ELSE [adapter |-> adapter, platformConversationId |-> platformConversationId,
             result |-> NoResult]

\* send, without the isConnected check
sendUnchecked(adp, st, conversationId) ==
    LET parts == Split(conversationId)
        adapterId == Nth(parts, 2)
        platformConversationId == Nth(parts, 3)
        adapter == MapGet(adp, adapterId)
        Return(r) == [adapter |-> "none", platformConversationId |-> <<>>, result |-> r]
    IN IF Falsy(adapterId) \/ Falsy(platformConversationId) THEN Return(InvalidFormat)
       ELSE IF adapter = "none" THEN Return(AdapterNotFound)
       ELSE [adapter |-> adapter, platformConversationId |-> platformConversationId,
             result |-> NoResult]

\* send, refusing an id whose type segment is not the adapter's channel type
sendTypeChecked(adp, st, conversationId) ==
    LET parts == Split(conversationId)
        adapterId == Nth(parts, 2)
        platformConversationId == Nth(parts, 3)
        adapter == MapGet(adp, adapterId)
        Return(r) == [adapter |-> "none", platformConversationId |-> <<>>, result |-> r]
    IN IF Falsy(adapterId) \/ Falsy(platformConversationId) THEN Return(InvalidFormat)
       ELSE IF adapter = "none" THEN Return(AdapterNotFound)
       ELSE IF channelType(adapter) # Nth(parts, 1) THEN Return(AdapterNotFound)
       ELSE IF ~isConnected(st, adapter) THEN Return(NotConnected)
       ELSE [adapter |-> adapter, platformConversationId |-> platformConversationId,
             result |-> NoResult]

\* Hub.send up to its return: either a result of its own (adapter "none"), or
\* the adapter and the native id of the sendMessage call it returns
send(adp, st, conversationId) ==
    LET parts == Split(conversationId)
        adapterId == Nth(parts, 2)
        platformConversationId == Nth(parts, 3)
        adapter == MapGet(adp, adapterId)
        Return(r) == [adapter |-> "none", platformConversationId |-> <<>>, result |-> r]
    IN IF Falsy(adapterId) \/ Falsy(platformConversationId) THEN Return(InvalidFormat)
       ELSE IF adapter = "none" THEN Return(AdapterNotFound)
       ELSE IF ~isConnected(st, adapter) THEN Return(NotConnected)
       ELSE [adapter |-> adapter, platformConversationId |-> platformConversationId,
             result |-> NoResult]

\* reply, with the spread after replyTo: { replyTo, ...options }
replyOptionsCallerWins(original, options) ==
    [defined |-> TRUE,
     replyTo |-> IF options.defined /\ options.replyTo # Undefined
                 THEN options.replyTo ELSE original.platformMessageId,
     silent |-> options.silent]

\* the options object Hub.reply passes to send: { ...options, replyTo }
replyOptions(original, options) ==
    [defined |-> TRUE, replyTo |-> original.platformMessageId, silent |-> options.silent]

\* the callback of broadcast, counting every settled send as sent
aggregateCountsAll(op, item, result) ==
    LET conversationId == op.conversationIds[item]
        adapterId == Nth(Split(conversationId), 2)
        old == op.results
    IN [op EXCEPT
           !.done = @ \cup {item},
           !.results = [c \in DOMAIN old \cup {conversationId} |->
                           IF c = conversationId THEN result ELSE old[c]],
           !.totalSent = @ + 1,
           !.failures = IF ~result.success /\ result.error # ""
                        THEN Append(@, [adapterId |-> adapterId, error |-> result.error])
                        ELSE @]

\* the body of the callback of broadcast after its await: record one result
aggregate(op, item, result) ==
    LET conversationId == op.conversationIds[item]
        adapterId == Nth(Split(conversationId), 2)
        old == op.results
    IN [op EXCEPT
           !.done = @ \cup {item},
           !.results = [c \in DOMAIN old \cup {conversationId} |->
                           IF c = conversationId THEN result ELSE old[c]],
           !.totalSent = IF result.success THEN @ + 1 ELSE @,
           !.failures = IF ~result.success /\ result.error # ""
                        THEN Append(@, [adapterId |-> adapterId, error |-> result.error])
                        ELSE @]

\* one Hub.send (item 0, or the index of a broadcast destination): the
\* sendMessage calls after it, and the result when send answered by itself
Issue(cs, item, conversationId, content, options) ==
    LET o == send(adapters, state, conversationId) IN
    IF o.adapter = "none" THEN [calls |-> cs, result |-> o.result, call |-> 0]
    ELSE [calls |-> Append(cs, Call(o.adapter, "sendMessage", o.platformConversationId,
                                    content, options, 0, item)),
          result |-> NoResult, call |-> Len(cs) + 1]

\* what a messaging call leaves for the record: the hub as it was, one more call
Observed ==
    /\ msgAt' = [adapters |-> adapters, running |-> running, state |-> state]
    /\ sent' = sent + 1

\* The hub's user makes its messaging calls one after the other.
Send(conversationId, content, options) ==
    /\ msg.status # "pending"
    /\ LET s == Issue(<<>>, 0, conversationId, content, options)
       IN /\ sends' = s.calls
          /\ msg' = [Op("send") EXCEPT
                 !.conversationId = conversationId, !.content = content,
                 !.options = options, !.call = s.call, !.result = s.result,
                 !.status = IF s.call = 0 THEN "resolved" ELSE "pending"]
    /\ Observed
    /\ UNCHANGED <<lifecycle, polling>>

Reply(original, content, options) ==
    /\ msg.status # "pending"
    /\ LET s == Issue(<<>>, 0, original.conversationId, content,
                      replyOptions(original, options))
       IN /\ sends' = s.calls
          /\ msg' = [Op("reply") EXCEPT
                 !.original = original, !.conversationId = original.conversationId,
                 !.content = content, !.options = options,
                 !.call = s.call, !.result = s.result,
                 !.status = IF s.call = 0 THEN "resolved" ELSE "pending"]
    /\ Observed
    /\ UNCHANGED <<lifecycle, polling>>

\* the sends of a broadcast, issued in order in the caller's turn; a send that
\* answered by itself is recorded as soon as the turn ends
RECURSIVE IssueAll(_, _, _)
IssueAll(cs, op, item) ==
    IF item > Len(op.conversationIds) THEN [calls |-> cs, op |-> op]
    ELSE LET s == Issue(cs, item, op.conversationIds[item], op.content, op.options)
         IN IssueAll(s.calls,
                     IF s.call = 0 THEN aggregate(op, item, s.result) ELSE op,
                     item + 1)

Broadcast(content, conversationIds, options) ==
    /\ msg.status # "pending"
    /\ LET b == IssueAll(<<>>, [Op("broadcast") EXCEPT
                            !.content = content, !.conversationIds = conversationIds,
                            !.options = options], 1)
       IN /\ sends' = b.calls
          /\ msg' = b.op
    /\ Observed
    /\ UNCHANGED <<lifecycle, polling>>

\* broadcast, returning as soon as one send has settled (Promise.race)
broadcastFinishFirst ==
    /\ msg.kind = "broadcast" /\ msg.status = "pending"
    /\ msg.done # {} \/ msg.conversationIds = <<>>
    /\ msg' = [msg EXCEPT !.status = "resolved"]
    /\ UNCHANGED <<lifecycle, polling, msgAt, sends, sent>>

\* broadcast after Promise.all
broadcastFinish ==
    /\ msg.kind = "broadcast" /\ msg.status = "pending"
    /\ msg.done = 1..Len(msg.conversationIds)
    /\ msg' = [msg EXCEPT !.status = "resolved"]
    /\ UNCHANGED <<lifecycle, polling, msgAt, sends, sent>>

\* sendMessage marking the adapter as failed when the platform call throws
sendMessageSettleMarksError(i, isReady, answer) ==
    /\ i \in Pending(sends, "sendMessage")
    /\ LET o == sendMessage(platform(sends[i].adapter), isReady, sends[i].content, answer)
       IN /\ sends' = [sends EXCEPT ![i].outcome = o.outcome, ![i].result = o.result]
          /\ msg' = IF o.outcome = "rejected" THEN [msg EXCEPT !.status = "rejected"]
                    ELSE IF msg.kind = "broadcast"
                    THEN aggregate(msg, sends[i].item, o.result)
                    ELSE [msg EXCEPT !.status = "resolved", !.result = o.result]
          /\ state' = IF answer = "throws"
                      THEN [state EXCEPT ![sends[i].adapter] = "error"] ELSE state
    /\ UNCHANGED <<adapters, running, listeners, readyOnce, readyDue, calls, ops, hubLog,
                   emitted, msgAt, sent, polling>>

\* the promise of an adapter's sendMessage settles, and the hub call awaiting
\* it resumes: send and reply settle as it does, broadcast records the result
\* or, by Promise.all, rejects
sendMessageSettle(i, isReady, answer) ==
    /\ i \in Pending(sends, "sendMessage")
    /\ LET o == sendMessage(platform(sends[i].adapter), isReady, sends[i].content, answer)
       IN /\ sends' = [sends EXCEPT ![i].outcome = o.outcome, ![i].result = o.result]
          /\ msg' = IF o.outcome = "rejected" THEN [msg EXCEPT !.status = "rejected"]
                    ELSE IF msg.kind = "broadcast"
                    THEN aggregate(msg, sends[i].item, o.result)
                    ELSE [msg EXCEPT !.status = "resolved", !.result = o.result]
    /\ UNCHANGED <<lifecycle, polling, msgAt, sent>>

-----------------------------------------------------------------------------
(* The API servers *)

ApiServers == {"allsend", "bridgekit"}

\* a request body of POST /api/send
Body(conversationId, type) == [conversationId |-> conversationId, channelType |-> type]

\* hub.getAllAdapters().find(a => a.channelType === body.channelType &&
\* a.isConnected): the first such adapter in the registry's order
findAdapter(adp, st, type) ==
    LET found == {i \in 1..Len(adp) : /\ channelType(adp[i].adapter) = type
                                      /\ isConnected(st, adp[i].adapter)}
    IN IF found = {} THEN "none"
       ELSE adp[CHOOSE i \in found : \A j \in found : i <= j].adapter

\* the chat id the server takes from body.conversationId: the part after the
\* last ':' (the BridgeKit server: of a Telegram request only)
chatId(server, body) ==
    LET parts == Split(body.conversationId)
    IN IF Len(parts) > 1 /\ (server = "allsend" \/ body.channelType = <<"t">>)
       THEN parts[Len(parts)] ELSE body.conversationId

\* POST /api/send up to its await of sendMessage, or to its 400 response
apiSend(server, body) ==
    /\ msg.status # "pending"
    /\ LET adapter == findAdapter(adapters, state, body.channelType)
           request == [Op(server) EXCEPT !.original = body,
                                          !.conversationId = body.conversationId,
                                          !.content = "text"]
       IN IF adapter = "none"
          THEN /\ sends' = <<>>
               /\ msg' = [request EXCEPT !.status = "resolved",
                                         !.result = Result(FALSE, "No adapter found")]
          ELSE /\ sends' = <<Call(adapter, "sendMessage", chatId(server, body), "text",
                                  NoOptions, 0, 0)>>
               /\ msg' = [request EXCEPT !.call = 1]
    /\ Observed
    /\ UNCHANGED <<lifecycle, polling>>

-----------------------------------------------------------------------------
(* Inputs *)

NativeIds == {<<"1">>, <<"1", ":", "2">>}

\* a content, told by its type, with the options sent along with it
Payloads ==
    {[content |-> "text", options |-> NoOptions],
     [content |-> "image", options |-> [defined |-> TRUE, replyTo |-> <<"9">>, silent |-> TRUE]]}

\* a message as the adapters' transformMessage builds it
Message(a, c) ==
    [conversationId |-> generateConversationId(a, c),
     platformMessageId |-> c \o <<Delim>> \o <<"7">>]

Messages == {Message("tg1", c) : c \in NativeIds} \cup {Message("dc1", <<"1">>)}

ConversationIds ==
    {m.conversationId : m \in Messages}
    \cup {<<"t", ":", "a">>, <<"t", ":", ":", "1">>, <<"x", ":", "a", ":", "1">>}

BroadcastIds == {<<"t", ":", "a", ":", "1">>, <<"d", ":", "b", ":", "1">>, <<"t", ":", "a">>}

Destinations ==
    UNION {[1..n -> BroadcastIds] : n \in 0..MaxBroadcast}

\* the bodies of the requests to the API servers: a composite or a native
\* conversation id, and a channel type
Bodies ==
    {Body(c, t) :
        c \in {generateConversationId(a, n) : a \in ServedInsts, n \in NativeIds} \cup NativeIds,
        t \in {channelType(a) : a \in ServedInsts}}

-----------------------------------------------------------------------------
(* Specification *)

Managed == Len(ops)

\* a registry or lifecycle call of the hub's user
Manage ==
    /\ \/ \E a \in Insts : registerAdapter(a)
       \/ \E a \in Insts : unregisterAdapter(idOf(a))
       \/ start
       \/ stop
    /\ UNCHANGED <<messaging, polling>>

\* a messaging call of the hub's user
Messaging ==
    \/ \E c \in ConversationIds, p \in Payloads : Send(c, p.content, p.options)
    \/ \E m \in Messages, p \in Payloads : Reply(m, p.content, p.options)
    \/ \E d \in Destinations, p \in Payloads : Broadcast(p.content, d, p.options)

\* the platforms' answers and the continuations of the hub's calls
Settling ==
    /\ \/ \E k \in 1..Len(ops) : startFinish(k)
       \/ \E k \in 1..Len(ops) : stopFinish(k)
       \/ \E i \in 1..Len(calls) : connectResolve(i)
       \/ \E i \in 1..Len(calls) : connectReject(i)
       \/ \E a \in AllInsts : ready(a)
       \/ \E i \in 1..Len(calls) : disconnectResolve(i)
       \/ \E i \in 1..Len(calls) : disconnectReject(i)
    /\ UNCHANGED <<messaging, polling>>

MessageSettling ==
    \/ broadcastFinish
    \/ \E i \in 1..Len(sends), isReady \in BOOLEAN, answer \in PlatformAnswers :
          sendMessageSettle(i, isReady, answer)

\* a lifecycle call, or the removal of an adapter, on a hub wired to adapters
Operate ==
    /\ \/ \E a \in AllInsts : unregisterAdapter(idOf(a))
       \/ start
       \/ stop
    /\ UNCHANGED <<messaging, polling>>

\* an event of the platform of an adapter that has not fallen silent; an
\* incoming message is told from the others by a number
Platform ==
    /\ \E a \in AllInsts :
          /\ Len(emitted[a]) < MaxSignals
          /\ \/ onStart(a)
             \/ auth_failure(a)
             \/ disconnected(a, "LOGOUT")
             \/ pollingError(a)
             \/ receive(a, "m" \o ToString(Len(emitted[a])))
    /\ UNCHANGED <<messaging, polling>>

NextAdapters ==
    \/ Managed < MaxWiring /\ Operate
    \/ Settling
    \/ Platform

\* a messaging call with a content of any type for an adapter of any class
MessagingAll ==
    \/ \E a \in AllInsts, t \in ContentTypes, p \in Payloads :
          Send(generateConversationId(a, <<"1">>), t, p.options)
    \/ \E a \in AllInsts, t \in ContentTypes :
          Reply(Message(a, <<"1">>), t, NoOptions)
    \/ \E a, b \in AllInsts, t \in ContentTypes :
          Broadcast(t, <<generateConversationId(a, <<"1">>),
                         generateConversationId(b, <<"1">>)>>, NoOptions)

\* the reaction calls made so far
Reacted == Cardinality({i \in 1..Len(calls) : calls[i].method \in Reactions})

\* a reaction call of the adapter's user
Reacting ==
    /\ \E a \in AllInsts, method \in Reactions, answer \in {"ok", "throws"} :
          React(a, method, answer)
    /\ UNCHANGED <<messaging, polling>>

NextReactions ==
    \/ Managed < MaxWiring /\ Operate
    \/ Settling
    \/ Reacted < MaxReactions /\ Reacting

\* the messages the adapters have passed on
Received ==
    Cardinality({<<a, n>> \in AllInsts \X (1..2 * MaxInbound) :
                    n <= Len(emitted[a]) /\ emitted[a][n].sig = "message"})

\* a message of any shape arriving at an adapter
Inbound ==
    /\ \E a \in AllInsts : \E m \in InboundPayloads(platform(a)) : inbound(a, m)
    /\ UNCHANGED <<messaging, polling>>

NextInbound == Received < MaxInbound /\ Inbound

\* the continuations of the hub's calls when a listener of the hub's user
\* throws on adapter:connected
Heard ==
    /\ \/ \E i \in 1..Len(calls) : connectResolveListenerThrows(i)
       \/ \E a \in AllInsts : onStart(a)
    /\ UNCHANGED <<messaging, polling>>

NextHeard ==
    \/ Managed < MaxHeard /\ Operate
    \/ Settling
    \/ Heard

\* the messages the WhatsApp clients have delivered
Delivered == Cardinality(Pending(calls, "transformMessage")) +
             Cardinality({i \in 1..Len(calls) : /\ calls[i].method = "transformMessage"
                                                /\ calls[i].outcome # "pending"})

\* a WhatsApp client delivering messages, each transformed in its own time
Delivering ==
    /\ \/ Delivered < MaxDelivered /\ \E a \in AllInsts : messageHandler(a)
       \/ \E i \in 1..Len(calls) : transformMessageResolve(i)
       \/ \E i \in 1..Len(calls) : transformMessageReject(i)
    /\ UNCHANGED <<messaging, polling>>

NextDelivered == Delivering

\* a request to an API server, and the answer of the platform to its send
Serving ==
    \/ sent < MaxServed /\ \E server \in ApiServers, body \in Bodies : apiSend(server, body)
    \/ \E i \in 1..Len(sends), answer \in PlatformAnswers : sendMessageSettle(i, TRUE, answer)

NextServed == Serving

\* the iMessage poller and its server
Polling ==
    /\ \/ \E d \in 1..MaxDate, isFromMe \in BOOLEAN : store(d, isFromMe)
       \/ Len(polls) < MaxPolls /\ \E a \in AllInsts : pollTick(a)
       \/ \E i \in 1..Len(polls), inclusive \in BOOLEAN : query(i, inclusive)
       \/ \E i \in 1..Len(polls) : pollResume(i)
       \/ \E i \in 1..Len(polls) : pollReject(i)
    /\ UNCHANGED messaging

NextPolling == Polling

NextSend ==
    \/ sent < MaxSends /\ MessagingAll
    \/ MessageSettling

NextLifecycle ==
    \/ Managed < MaxOps /\ Manage
    \/ Settling

Next ==
    \/ Managed < MaxSetup /\ Manage
    \/ sent < MaxSends /\ Messaging
    \/ Settling
    \/ MessageSettling

\* the hub with its messaging calls
Spec == Init /\ [][Next]_vars

\* the hub's registry and lifecycle alone, explored more deeply
SpecLifecycle == Init /\ [][NextLifecycle]_vars

\* the messaging calls on a running hub, over all adapter classes and contents
SpecSend == InitConnected /\ [][NextSend]_vars

\* the hub wired to adapters of all four classes, with their platforms' events
SpecAdapters == InitWired /\ [][NextAdapters]_vars

\* a running hub receiving the messages of its adapters' platforms
SpecInbound == InitConnected /\ [][NextInbound]_vars

\* the hub wired to adapters of all four classes, with reaction calls made on them
SpecReactions == InitWired /\ [][NextReactions]_vars

\* the hub wired to adapters of all four classes, with a user's listener that
\* may throw when an adapter is announced connected
SpecHeard == InitWired /\ [][NextHeard]_vars

\* a running hub whose iMessage adapter polls its server
SpecPolling == InitConnected /\ [][NextPolling]_vars

\* the API servers in front of a running hub
SpecServed == InitServed /\ [][NextServed]_vars

\* a running hub whose adapters' platforms deliver messages, WhatsApp's
\* handled asynchronously
SpecDelivered == InitConnected /\ [][NextDelivered]_vars

-----------------------------------------------------------------------------
(* Properties: vocabulary *)

\* the positions of the delimiter in a conversation id
Colons(c) == {i \in 1..Len(c) : c[i] = Delim}

FirstColon(c) == CHOOSE i \in Colons(c) : \A j \in Colons(c) : i <= j
LastColon(c) == CHOOSE i \in Colons(c) : \A j \in Colons(c) : j <= i

\* the adapter-id and native-id segments of an id with exactly two delimiters
AdapterSegment(c) == SubSeq(c, FirstColon(c) + 1, LastColon(c) - 1)
NativeSegment(c) == SubSeq(c, LastColon(c) + 1, Len(c))

\* type:adapter:native, exactly three segments, adapter and native not empty
WellFormed(c) ==
    /\ Cardinality(Colons(c)) = 2
    /\ AdapterSegment(c) # <<>>
    /\ NativeSegment(c) # <<>>

\* a is the adapter registered under id
RegisteredAs(a, id) == \E i \in 1..Len(adapters) : adapters[i] = [id |-> id, adapter |-> a]

Registered(id) == \E a \in Insts : RegisteredAs(a, id)

\* a was the adapter registered under id when msg was called
RegisteredAt(a, id) ==
    \E i \in 1..Len(msgAt.adapters) : msgAt.adapters[i] = [id |-> id, adapter |-> a]

\* when msg was called, c named a registered adapter, a, that was connected
RoutedTo(a, c) ==
    /\ WellFormed(c)
    /\ RegisteredAt(a, AdapterSegment(c))
    /\ msgAt.state[a] = "connected"

\* the hub calls made in this step
NewOps == {k \in 1..Len(ops') : k > Len(ops)}

\* the adapter calls settled in this step
NowSettled(method) ==
    {i \in 1..Len(calls) : /\ calls[i].method = method
                           /\ calls[i].outcome = "pending"
                           /\ calls'[i].outcome # "pending"}

CallsOf(cs, k) == {i \in 1..Len(cs) : cs[i].op = k}

Emitted(log, sig, id) == Cardinality({n \in 1..Len(log[id]) : log[id][n].sig = sig})

\* the sendMessage call is the one send(c, content, options) owes adapter a
Delegates(call, a, c, content, options) ==
    /\ call.adapter = a
    /\ call.method = "sendMessage"
    /\ call.conversationId = NativeSegment(c)
    /\ call.content = content
    /\ call.options = options

-----------------------------------------------------------------------------
(* Properties of send *)

\* C1: send with a well-formed id T:A:C whose adapter A is registered and
\* connected calls A.sendMessage(C, content, options) once, calls no other
\* adapter, and returns what that call returns, whether or not the hub runs
C1_SendDelegates ==
    msg.kind = "send" =>
       \A a \in Insts :
          RoutedTo(a, msg.conversationId)
          => /\ Len(sends) = 1
             /\ Delegates(sends[1], a, msg.conversationId, msg.content, msg.options)
             /\ msg.status \in {"pending", "resolved"}
             /\ msg.status = "pending" <=> sends[1].outcome = "pending"
             /\ msg.status = "resolved"
                => /\ sends[1].result \in AdapterResults
                   /\ msg.result = sends[1].result

\* a send delivered by tg1 on a hub that was not running, with another
\* adapter registered and connected
C1_Witness ==
    /\ msg.kind = "send"
    /\ msg.conversationId = <<"t", ":", "a", ":", "1">>
    /\ ~msgAt.running
    /\ RoutedTo("tg1", msg.conversationId)
    /\ RegisteredAt("dc1", <<"b">>) /\ msgAt.state["dc1"] = "connected"
    /\ msg.status = "resolved"
    /\ msg.result = Result(TRUE, "")
    /\ sends[1].adapter = "tg1"
    /\ sends[1].conversationId = <<"1">>

\* C2: the id generateConversationId(C) of adapter A makes is parsed by send
\* back to adapter id A and native id C, also when C contains the delimiter
C2_RoundTrip ==
    msg.kind \in {"send", "reply"} =>
       \A a \in Insts, c \in NativeIds :
          (msg.conversationId = generateConversationId(a, c) /\ sends # <<>>)
          => /\ idOf(sends[1].adapter) = idOf(a)
             /\ sends[1].conversationId = c

\* C3: send with a well-formed id whose adapter id is not registered returns
\* the 'Adapter not found' failure and calls no adapter, running or not
C3_UnknownAdapter ==
    (/\ msg.kind = "send"
     /\ WellFormed(msg.conversationId)
     /\ ~\E a \in Insts : RegisteredAt(a, AdapterSegment(msg.conversationId)))
    => /\ msg.status = "resolved"
       /\ msg.result = AdapterNotFound
       /\ sends = <<>>

\* on a running hub with an adapter registered, a send to another adapter id
C3_Witness ==
    /\ msgAt.running
    /\ msgAt.adapters # <<>>
    /\ msg.kind = "send"
    /\ WellFormed(msg.conversationId)
    /\ msg.result = AdapterNotFound
    /\ sends = <<>>

\* C4: send never calls sendMessage on an adapter that is not connected at the
\* moment of the call; for a registered adapter in any other state it returns
\* the 'not connected' failure
C4_NeverSendsDisconnected ==
    /\ \A i \in 1..Len(sends) : msgAt.state[sends[i].adapter] = "connected"
    /\ msg.kind = "send" /\ WellFormed(msg.conversationId)
       => \A a \in Insts :
             (/\ RegisteredAt(a, AdapterSegment(msg.conversationId))
              /\ msgAt.state[a] # "connected")
             => /\ msg.status = "resolved"
                /\ msg.result = NotConnected
                /\ sends = <<>>

\* a send to a registered adapter whose connect() had failed
C4_Witness ==
    /\ msg.kind = "send"
    /\ WellFormed(msg.conversationId)
    /\ \E a \in Insts : /\ RegisteredAt(a, AdapterSegment(msg.conversationId))
                        /\ msgAt.state[a] = "error"
    /\ msg.result = NotConnected
    /\ sends = <<>>

\* C5: send returns the invalid-format failure and calls no adapter for every
\* id that is not exactly three segments with adapter and native id not empty
C5_MalformedRejected ==
    (msg.kind = "send" /\ ~WellFormed(msg.conversationId))
    => /\ msg.status = "resolved"
       /\ msg.result = InvalidFormat
       /\ sends = <<>>

-----------------------------------------------------------------------------
(* Properties of broadcast and reply *)

\* the sendMessage calls made for the item-th destination of msg
ItemCalls(item) == {j \in 1..Len(sends) : sends[j].item = item}

ItemResult(item) == sends[CHOOSE j \in ItemCalls(item) : TRUE].result

\* the destinations of msg whose send came back with success
Succeeded ==
    {i \in 1..Len(msg.conversationIds) :
        ItemCalls(i) # {} /\ ItemResult(i).success}

\* what the send for the item-th destination may have returned
SendResults(item) ==
    IF ItemCalls(item) # {} THEN {ItemResult(item)}
    ELSE {InvalidFormat, AdapterNotFound, NotConnected}

C8_ReplyTo ==
    msg.kind = "reply" =>
       /\ msg.conversationId = msg.original.conversationId
       /\ \A j \in 1..Len(sends) :
             /\ sends[j].options.replyTo = msg.original.platformMessageId
             /\ sends[j].options.silent = msg.options.silent
             /\ sends[j].content = msg.content
       /\ \A a \in Insts :
             RoutedTo(a, msg.original.conversationId)
             => /\ Len(sends) = 1
                /\ Delegates(sends[1], a, msg.original.conversationId, msg.content,
                             [msg.options EXCEPT
                                 !.defined = TRUE,
                                 !.replyTo = msg.original.platformMessageId])

\* a reply whose caller gave a replyTo of its own
C8_Witness ==
    /\ msg.kind = "reply"
    /\ msg.options.replyTo = <<"9">>
    /\ msg.original = Message("tg1", <<"1">>)
    /\ Len(sends) = 1
    /\ sends[1].adapter = "tg1"
    /\ sends[1].options.replyTo = <<"1", ":", "7">>
    /\ sends[1].options.silent = TRUE

-----------------------------------------------------------------------------
(* Properties of the registry and of start *)

C9_Step ==
    \A k \in NewOps :
       (ops'[k].kind = "registerAdapter" /\ Registered(idOf(ops'[k].adapter)))
       => /\ ops'[k].status = "threw"
          /\ UNCHANGED <<adapters, running, state, listeners, readyOnce, readyDue,
                         calls, hubLog, emitted>>

\* C9: registerAdapter with an id already registered throws and changes
\* nothing: the registry, the listeners and the adapters stay as they were and
\* no connect() is issued, running or not
C9_DuplicateRejected == [][C9_Step]_vars

\* on a running hub with tg1 registered, registering tg2 under the same id threw
C9_Witness ==
    /\ running
    /\ RegisteredAs("tg1", <<"a">>)
    /\ listeners["tg2"] = 0
    /\ \A c \in 1..Len(calls) : calls[c].adapter # "tg2"
    /\ \E k \in 1..Len(ops) :
          /\ ops[k].kind = "registerAdapter"
          /\ ops[k].adapter = "tg2"
          /\ ops[k].status = "threw"

C10_Step ==
    /\ \A k \in NewOps :
          (ops'[k].kind = "start" /\ ~running)
          => /\ ops'[k].status = "pending"
             /\ Len(calls') = Len(calls) + Len(adapters)
             /\ \A j \in 1..Len(adapters) :
                   calls'[Len(calls) + j] =
                      Call(adapters[j].adapter, "connect", <<>>, "", NoOptions, k, 0)
    /\ \A i \in NowSettled("connect") :
          (ops[calls[i].op].kind = "start" /\ calls'[i].outcome = "rejected")
          => /\ Emitted(hubLog', "adapter:error", idOf(calls[i].adapter))
                  > Emitted(hubLog, "adapter:error", idOf(calls[i].adapter))
             /\ \A b \in Insts \ {calls[i].adapter} : state'[b] = state[b]
             /\ \A j \in 1..Len(calls) \ {i} : calls'[j] = calls[j]
    /\ \A k \in 1..Len(ops) :
          ops[k].kind = "start" =>
             /\ ops'[k].status \in {"pending", "resolved"}
             /\ (ops[k].status = "pending" /\ ops'[k].status = "resolved")
                => /\ \A c \in CallsOf(calls, k) : calls[c].outcome # "pending"
                   /\ running'
                   /\ hubLog' = Emit(hubLog, HubOwnSignal("started"))

\* C10: start on a hub that is not running calls connect() on every registered
\* adapter; a connect() that rejects is reported as adapter:error, leaves the
\* other adapters and their connect() calls alone and never rejects start,
\* which ends by marking the hub running and emitting started
C10_StartIsolatesFailures == [][C10_Step]_vars

\* start has returned on a hub where one adapter failed to connect and the
\* other is connected
C10_Witness ==
    \E k \in 1..Len(ops) : \E c, d \in CallsOf(calls, k) :
       /\ ops[k].kind = "start" /\ ops[k].status = "resolved"
       /\ running
       /\ calls[c].outcome = "rejected"
       /\ state[calls[c].adapter] = "error"
       /\ Emitted(hubLog, "adapter:error", idOf(calls[c].adapter)) > 0
       /\ calls[d].outcome = "resolved"
       /\ state[calls[d].adapter] = "connected"
       /\ Emitted(hubLog, "started", <<>>) = 1

-----------------------------------------------------------------------------
(* Properties of start and stop *)

\* the hub calls of a kind that return in this step
NowResolved(kind) ==
    {k \in 1..Len(ops) : /\ ops[k].kind = kind
                         /\ ops[k].status = "pending"
                         /\ ops'[k].status = "resolved"}

\* the hub calls of a kind that have not returned
InFlight(kind) == {k \in 1..Len(ops) : ops[k].kind = kind /\ ops[k].status = "pending"}

\* the last of the hub's own signals
LastOwnSignal ==
    IF hubLog[<<>>] = <<>> THEN "none" ELSE hubLog[<<>>][Len(hubLog[<<>>])].sig

\* the hub call made in this step is a no-op
NoOp(k) ==
    /\ ops'[k].status = "resolved"
    /\ UNCHANGED <<adapters, running, state, listeners, readyOnce, readyDue, calls, hubLog,
                   emitted>>

C11_Step ==
    /\ (running' /\ ~running) \/ Emitted(hubLog', "started", <<>>) # Emitted(hubLog, "started", <<>>)
       => \E k \in NowResolved("start") :
             /\ \A c \in CallsOf(calls, k) : calls[c].outcome # "pending"
             /\ \A c \in CallsOf(calls', k) : calls'[c].outcome # "pending"
             /\ running' /\ Emitted(hubLog', "started", <<>>) = Emitted(hubLog, "started", <<>>) + 1
    /\ \A k \in InFlight("start") :
          (\E c \in CallsOf(calls', k) : calls'[c].outcome = "pending")
          => ops'[k].status = "pending"
    /\ NowSettled("connect") # {}
       => /\ running' = running
          /\ Emitted(hubLog', "started", <<>>) = Emitted(hubLog, "started", <<>>)

\* C11: the running flag is set and started is emitted only by a start() all
\* of whose connect() attempts have settled; a start() with an attempt still
\* unsettled stays suspended, and no settling connect(), resolved or
\* rejected, sets the flag or emits started
C11_StartWaitsForAll == [][C11_Step]_vars

\* a start() still suspended after one of its connect() attempts was rejected
C11_Witness ==
    \E k \in InFlight("start") : \E c, d \in CallsOf(calls, k) :
       /\ calls[c].outcome = "rejected"
       /\ calls[d].outcome = "pending"
       /\ ~running
       /\ Emitted(hubLog, "started", <<>>) = 0

C12_Step ==
    /\ \A k \in NewOps :
          (ops'[k].kind = "stop" /\ running)
          => /\ ops'[k].status = "pending"
             /\ Len(calls') = Len(calls) + Len(adapters)
             /\ \A j \in 1..Len(adapters) :
                   calls'[Len(calls) + j] =
                      Call(adapters[j].adapter, "disconnect", <<>>, "", NoOptions, k, 0)
             /\ running' /\ hubLog' = hubLog
    /\ \A i \in NowSettled("disconnect") :
          (ops[calls[i].op].kind = "stop" /\ calls'[i].outcome = "rejected")
          => /\ Emitted(hubLog', "adapter:error", idOf(calls[i].adapter))
                  > Emitted(hubLog, "adapter:error", idOf(calls[i].adapter))
             /\ running' = running
             /\ hubLog'[<<>>] = hubLog[<<>>]
    /\ \A k \in 1..Len(ops) :
          ops[k].kind = "stop" =>
             /\ ops'[k].status \in {"pending", "resolved"}
             /\ CallsOf(calls', k) = CallsOf(calls, k)
             /\ (ops[k].status = "pending" /\ ops'[k].status = "resolved")
                => /\ \A c \in CallsOf(calls, k) : calls[c].outcome # "pending"
                   /\ ~running'
                   /\ hubLog' = Emit(hubLog, HubOwnSignal("stopped"))
             /\ (ops[k].status = "pending" /\ ops'[k].status = "pending")
                => Emitted(hubLog', "stopped", <<>>) = Emitted(hubLog, "stopped", <<>>)
                   \/ NowResolved("stop") # {}

\* C12: stop on a running hub calls disconnect() once on every registered
\* adapter; a disconnect() that rejects is reported as adapter:error and never
\* rejects stop, which clears the running flag and emits stopped once, and
\* only when every disconnect() has settled
C12_StopDisconnectsAll == [][C12_Step]_vars

\* stop has returned on a hub with two adapters, one of whose disconnect()
\* was rejected
C12_Witness ==
    \E k \in 1..Len(ops) : \E c, d \in CallsOf(calls, k) :
       /\ ops[k].kind = "stop" /\ ops[k].status = "resolved"
       /\ Cardinality(CallsOf(calls, k)) = 2
       /\ calls[c].outcome = "rejected"
       /\ Emitted(hubLog, "adapter:error", idOf(calls[c].adapter)) > 0
       /\ calls[d].outcome = "resolved"
       /\ ~running
       /\ Emitted(hubLog, "stopped", <<>>) = 1

C13_Step ==
    \A k \in NewOps :
       (/\ ops'[k].kind = "stop"
        /\ LastOwnSignal = "stopped"
        /\ InFlight("start") = {})
       => /\ ~running
          /\ NoOp(k)

\* C13: stop called again after a stop has returned, with no start since, is
\* a no-op: no disconnect() is called, stopped is not emitted again and the
\* running flag stays false
C13_StopTwice == [][C13_Step]_vars

\* two stops have returned, the first one having disconnected an adapter
C13_Witness ==
    \E j, k \in 1..Len(ops) :
       /\ j < k
       /\ ops[j].kind = "stop" /\ ops[j].status = "resolved"
       /\ CallsOf(calls, j) # {}
       /\ ops[k].kind = "stop" /\ ops[k].status = "resolved"
       /\ CallsOf(calls, k) = {}
       /\ \A i \in j..k : ops[i].kind # "start"
       /\ ~running
       /\ Emitted(hubLog, "stopped", <<>>) = 1

C14_Step ==
    \A k \in NewOps :
       (/\ ops'[k].kind = "start"
        /\ LastOwnSignal = "started"
        /\ InFlight("stop") = {})
       => /\ running
          /\ NoOp(k)

\* C14: start called on a hub whose earlier start has returned, with no stop
\* since, returns at once: no connect() is called, started is not emitted
\* again and the running flag stays true
C14_StartTwice == [][C14_Step]_vars

\* two starts have returned one after the other, the first one having
\* connected an adapter
C14_Witness ==
    \E j \in 1..Len(ops) :
       /\ j + 1 \in 1..Len(ops)
       /\ ops[j].kind = "start" /\ ops[j].status = "resolved"
       /\ CallsOf(calls, j) # {}
       /\ ops[j + 1].kind = "start" /\ ops[j + 1].status = "resolved"
       /\ CallsOf(calls, j + 1) = {}
       /\ running
       /\ Emitted(hubLog, "started", <<>>) = 1

-----------------------------------------------------------------------------
(* Properties of the adapters' state machine *)

\* the signals adapter a emits in this step
NewSignals(a) == SubSeq(emitted'[a], Len(emitted[a]) + 1, Len(emitted'[a]))

\* the signals the hub emits for a source in this step
NewHubSignals(id) == SubSeq(hubLog'[id], Len(hubLog[id]) + 1, Len(hubLog'[id]))

\* the places of a signal in a sequence of adapter signals
Places(sigs, sig) == {n \in 1..Len(sigs) : sigs[n].sig = sig}

C15_Step ==
    \A a \in AllInsts :
       LET new == NewSignals(a) IN
       /\ Len(emitted'[a]) >= Len(emitted[a])
       /\ SubSeq(emitted'[a], 1, Len(emitted[a])) = emitted[a]
       /\ Cardinality(Places(new, "connected"))
             = IF state[a] # "connected" /\ state'[a] = "connected" THEN 1 ELSE 0
       /\ Cardinality(Places(new, "disconnected"))
             = IF state[a] = "connected" /\ state'[a] = "disconnected" THEN 1 ELSE 0
       /\ \A n \in Places(new, "disconnected") : new[n].arg \in {"", "LOGOUT"}
       /\ state'[a] = state[a]
          => \A n \in 1..Len(new) : new[n].sig \in {"error", "message", "event"}

\* C15: an adapter emits connected exactly when its state goes from another
\* state to connected, disconnected(reason) exactly when it goes from
\* connected to disconnected, and neither on any other transition
C15_SetStateSignals == [][C15_Step]_vars

\* a Telegram adapter that was set connected twice (connect(), then the
\* poller's onStart) and announced it once, and then was disconnected
C15_Witness ==
    \E a \in AllInsts :
       /\ platform(a) = "telegram"
       /\ \E i, j \in 1..Len(calls) :
             /\ calls[i] = [Call(a, "connect", <<>>, "", NoOptions, calls[i].op, 0)
                               EXCEPT !.outcome = "resolved"]
             /\ calls[j].adapter = a /\ calls[j].method = "disconnect"
             /\ calls[j].outcome = "resolved"
       /\ ~readyDue[a]
       /\ state[a] = "disconnected"
       /\ emitted[a] = <<Signal("connected", ""), Signal("disconnected", "")>>

C16_Step ==
    \A i \in NowSettled("connect") :
       /\ calls'[i].outcome = "resolved" => state'[calls[i].adapter] = "connected"
       /\ calls'[i].outcome = "rejected" => state'[calls[i].adapter] = "error"

\* C16: when the promise of connect() settles, the adapter is connected if it
\* resolved and in state error if it rejected
C16_ConnectEndsConnectedOrError == [][C16_Step]_vars

C17_Step ==
    \A i \in NowSettled("disconnect") :
       /\ state'[calls[i].adapter] = "disconnected"
       /\ state[calls[i].adapter] = "disconnected"
          => Places(NewSignals(calls[i].adapter), "disconnected") = {}

\* C17: when disconnect() settles the adapter is disconnected, whatever state
\* it was in and whether or not the teardown failed; a disconnect() of a
\* disconnected adapter emits no disconnected signal
C17_DisconnectEndsDisconnected == [][C17_Step]_vars

C18_Step ==
    \A a \in AllInsts :
       /\ state[a] = "error" => Places(emitted[a], "error") # {}
       /\ (state[a] # "error" /\ state'[a] = "error")
          => \E n \in Places(NewSignals(a), "error") :
                /\ NewSignals(a)[n].arg \in {"connect", "auth"}
                /\ listeners[a] > 0
                   => \E h \in 1..Len(NewHubSignals(idOf(a))) :
                         NewHubSignals(idOf(a))[h] =
                            HubSignal("adapter:error", a, NewSignals(a)[n].arg)

\* C18: whenever an adapter's state becomes error the adapter emits an error
\* signal with the context of the failure, which the hub re-emits as
\* adapter:error under the adapter's id; no adapter is in state error without
\* having emitted an error signal
C18_ErrorStateSignalled == [][C18_Step]_vars

\* a WhatsApp adapter put in state error by an authentication failure
C18_Witness ==
    /\ state["wa1"] = "error"
    /\ listeners["wa1"] > 0
    /\ \E n \in 1..Len(emitted["wa1"]) : emitted["wa1"][n] = Signal("error", "auth")
    /\ \E h \in 1..Len(hubLog[idOf("wa1")]) :
          hubLog[idOf("wa1")][h] = HubSignal("adapter:error", "wa1", "auth")
    /\ \A i \in 1..Len(calls) : calls[i].outcome # "rejected"

-----------------------------------------------------------------------------
(* Properties of sendMessage *)

\* C19: sendMessage of every adapter class resolves for every content type
\* and every failure of the platform call, never rejects, and answers a
\* failure with success false and an error, so that no call of the hub's
\* send, reply or broadcast is rejected
C19_SendMessageNeverRejects ==
    /\ \A i \in 1..Len(sends) :
          /\ sends[i].outcome \in {"pending", "resolved"}
          /\ sends[i].outcome = "resolved"
             => /\ sends[i].result \in AdapterResults
                /\ sends[i].result.success \/ sends[i].result.error # ""
    /\ msg.status \in {"pending", "resolved"}
    /\ (msg.kind \in {"send", "reply"} /\ msg.status = "resolved")
       => (msg.result.success \/ msg.result.error # "")

\* a send of a video by the WhatsApp adapter whose client threw
C19_Witness ==
    /\ msg.kind = "send" /\ msg.status = "resolved"
    /\ Len(sends) = 1
    /\ sends[1].adapter = "wa1" /\ sends[1].content = "video"
    /\ sends[1].outcome = "resolved"
    /\ msg.result = Result(FALSE, "platform error")

-----------------------------------------------------------------------------
(* Properties of the forwarding of signals *)

\* the hub's signals for the signals sigs of adapter a
Forwarded(a, sigs) ==
    [n \in 1..Len(sigs) |-> HubSignal(HubName(sigs[n].sig), a, sigs[n].arg)]

\* the adapter:error with which start, stop and registerAdapter report, in
\* this step, a rejected connect() or disconnect() of an adapter with this id
Reported(id) ==
    LET settled == NowSettled("connect") \cup NowSettled("disconnect")
        i == CHOOSE i \in settled : TRUE
    IN IF /\ settled # {}
          /\ idOf(calls[i].adapter) = id
          /\ calls'[i].outcome = "rejected"
          /\ ops[calls[i].op].kind # "unregisterAdapter"
       THEN <<HubSignal("adapter:error", calls[i].adapter, calls[i].method)>>
       ELSE <<>>

\* the adapters listened to by the hub under an id
Wired(id) == {a \in AllInsts : idOf(a) = id /\ listeners[a] > 0}

C20_Step ==
    /\ Cardinality({a \in AllInsts : NewSignals(a) # <<>>}) <= 1
    /\ Cardinality(NowSettled("connect") \cup NowSettled("disconnect")) <= 1
    /\ \A a \in AllInsts : listeners[a] \in {0, 1}
    /\ \A id \in Sources \ {<<>>} :
          /\ Cardinality(Wired(id)) <= 1
          /\ SubSeq(hubLog'[id], 1, Len(hubLog[id])) = hubLog[id]
          /\ \A a \in Wired(id) :
                NewHubSignals(id) = Forwarded(a, NewSignals(a)) \o Reported(id)
          /\ Wired(id) = {} => NewHubSignals(id) = Reported(id)

\* C20: every message, event, connected, disconnected and error signal of a
\* registered adapter is re-emitted by the hub once, under the hub's name for
\* it and the adapter's id, in the order in which the adapter emitted them
C20_SignalsForwardedInOrder == [][C20_Step]_vars

\* a registered adapter has connected, received a message and been
\* disconnected, and the hub shows the four signals in that order
C20_Witness ==
    \E a \in AllInsts :
       /\ listeners[a] = 1
       /\ Len(emitted[a]) = 4
       /\ emitted[a][1].sig = "connected"
       /\ emitted[a][2].sig = "message"
       /\ emitted[a][3] = Signal("event", emitted[a][2].arg)
       /\ emitted[a][4].sig = "disconnected"
       /\ hubLog[idOf(a)] = Forwarded(a, emitted[a])

-----------------------------------------------------------------------------
(* Properties of registerAdapter and unregisterAdapter *)

C21_Step ==
    /\ \A k \in NewOps :
          (ops'[k].kind = "registerAdapter" /\ ~Registered(idOf(ops'[k].adapter)))
          => /\ ops'[k].status = "returned"
             /\ running' = running /\ hubLog' = hubLog
             /\ running
                => calls' = Append(calls, Call(ops'[k].adapter, "connect", <<>>, "",
                                               NoOptions, k, 0))
             /\ ~running => calls' = calls /\ state' = state
    /\ \A i \in NowSettled("connect") :
          ops[calls[i].op].kind = "registerAdapter"
          => /\ ops' = ops
             /\ ops[calls[i].op].status = "returned"
             /\ calls'[i].outcome = "rejected"
                => LET new == NewHubSignals(idOf(calls[i].adapter))
                   IN /\ new # <<>>
                      /\ new[Len(new)] = HubSignal("adapter:error", calls[i].adapter, "connect")
             /\ \A id \in Sources \ {idOf(calls[i].adapter)} : hubLog'[id] = hubLog[id]

\* C21: registerAdapter of a new adapter on a running hub calls its connect()
\* at once and returns; when that connect() rejects later the call has
\* returned all the same, and the hub emits adapter:error with the adapter's
\* id and the context connect, under no other id; on a hub that is not running
\* registerAdapter calls no connect()
C21_RegisterConnectsWhenRunning == [][C21_Step]_vars

\* an adapter registered on a running hub whose connect() was rejected after
\* registerAdapter had returned, and another registered before the start
C21_Witness ==
    \E k \in 1..Len(ops) : \E c \in CallsOf(calls, k) :
       /\ ops[k].kind = "registerAdapter" /\ ops[k].status = "returned"
       /\ running
       /\ calls[c].method = "connect" /\ calls[c].outcome = "rejected"
       /\ state[ops[k].adapter] = "error"
       /\ hubLog[ops[k].id] # <<>>
       /\ hubLog[ops[k].id][Len(hubLog[ops[k].id])]
             = HubSignal("adapter:error", ops[k].adapter, "connect")
       /\ \E j \in 1..Len(ops) :
             /\ j < k /\ ops[j].kind = "registerAdapter" /\ ops[j].status = "returned"
             /\ CallsOf(calls, j) = {}

\* the answer of Hub.send for a conversation of adapter a, were it called on
\* the hub as this step leaves it
SendAfter(a) == send(adapters', state', generateConversationId(a, <<"1">>)).result

\* unregisterAdapter(id) has detached adapter a and forgotten id
Removed(a, id) ==
    /\ ~MapHas(adapters', id)
    /\ listeners'[a] = 0
    /\ SendAfter(a) = AdapterNotFound

\* an unregisterAdapter call for adapter a has resolved
Unregistered(a) ==
    \E k \in 1..Len(ops) :
       /\ ops[k].kind = "unregisterAdapter" /\ ops[k].status = "resolved"
       /\ ops[k].adapter = a

C22_Step ==
    /\ \A k \in NewOps :
          ops'[k].kind = "unregisterAdapter" =>
             LET id == ops'[k].id
                 a == MapGet(adapters, id)
             IN /\ ops'[k].adapter = a
                /\ a = "none" => NoOp(k)
                /\ (a # "none" /\ isConnected(state, a))
                   => /\ ops'[k].status = "pending"
                      /\ calls' = Append(calls, Call(a, "disconnect", <<>>, "", NoOptions, k, 0))
                      /\ UNCHANGED <<adapters, listeners>>
                /\ (a # "none" /\ ~isConnected(state, a))
                   => /\ ops'[k].status = "resolved"
                      /\ calls' = calls
                      /\ Removed(a, id)
    /\ \A k \in NowResolved("unregisterAdapter") :
          /\ \E i \in NowSettled("disconnect") :
                /\ CallsOf(calls', k) = {i}
                /\ calls[i].adapter = ops[k].adapter
                /\ calls'[i].outcome = "resolved"
          /\ Removed(ops[k].adapter, ops[k].id)
    /\ \A a \in AllInsts :
          (Unregistered(a) /\ Wired(idOf(a)) = {})
          => /\ listeners'[a] = 0
             /\ NewHubSignals(idOf(a)) = Reported(idOf(a))

\* C22: unregisterAdapter(id) of a registered id calls the adapter's
\* disconnect() if and only if the adapter is connected, and when it resolves
\* the id is gone from the registry, so that Hub.send answers adapter not
\* found, and the hub listens to the adapter no more: none of the adapter's
\* later signals is re-emitted by the hub; for an id that is not registered the
\* call changes nothing and calls no adapter
C22_UnregisterDetaches == [][C22_Step]_vars

\* an adapter unregistered while connecting, without a disconnect(), that
\* then connected and received a message, none of which the hub has shown
C22_Witness ==
    \E a \in AllInsts :
       /\ Unregistered(a)
       /\ \A i \in 1..Len(calls) : calls[i].adapter = a => calls[i].method = "connect"
       /\ ~MapHas(adapters, idOf(a))
       /\ state[a] = "connected"
       /\ \E n \in 1..Len(emitted[a]) : emitted[a][n].sig = "message"
       /\ hubLog[idOf(a)] = <<>>

-----------------------------------------------------------------------------
(* Properties of routing *)

\* type segments, among them the empty one and some that are no adapter's
TypeSegments == {<<>>, <<"t">>, <<"d">>, <<"x">>, <<"t", "d">>}

\* the conversation id c with its first segment replaced by t
Retype(c, t) == IF Colons(c) = {} THEN t ELSE t \o SubSeq(c, FirstColon(c), Len(c))

\* C23: Hub.send routes by the adapter-id and native-id segments alone: for a
\* send with any id, the same id under any other type segment, the adapter's
\* own or not, is routed to the same adapter with the same native id or gets
\* the same answer from the hub, and the call that was made and its result are
\* those of that routing
C23_TypeNotAuthoritative ==
    msg.kind = "send" =>
       \A t \in TypeSegments :
          LET o == send(msgAt.adapters, msgAt.state, Retype(msg.conversationId, t))
          IN /\ o = send(msgAt.adapters, msgAt.state, msg.conversationId)
             /\ o.adapter = "none" => sends = <<>> /\ msg.result = o.result
             /\ o.adapter # "none"
                => /\ Len(sends) = 1
                   /\ sends[1] = [Call(o.adapter, "sendMessage", o.platformConversationId,
                                       msg.content, msg.options, 0, 0)
                                     EXCEPT !.outcome = sends[1].outcome,
                                            !.result = sends[1].result]
                   /\ msg.status = "resolved" => msg.result = sends[1].result

\* a send under a type that is no adapter's, delivered by the Telegram adapter
C23_Witness ==
    /\ msg.kind = "send"
    /\ msg.conversationId = <<"x", ":", "a", ":", "1">>
    /\ msg.status = "resolved"
    /\ msg.result = Result(TRUE, "")
    /\ Len(sends) = 1
    /\ sends[1].adapter = "tg1"
    /\ sends[1].conversationId = <<"1">>

-----------------------------------------------------------------------------
(* Properties of the default reaction methods *)

\* the text t occurs in the message s
Contains(s, t) == \E i \in 1..Len(s) : SubSeq(s, i, i + Len(t) - 1) = t

\* a rejection whose message says not supported and names a's channel type
SaysNotSupported(r, a) ==
    /\ r.outcome = "rejected"
    /\ Contains(r.error, <<"not supported">>)
    /\ Contains(r.error, channelType(a))

\* the adapter calls made in this step
NewCalls == {i \in 1..Len(calls') : i > Len(calls)}

C24_Step ==
    /\ \A a \in AllInsts : SaysNotSupported(addReaction(a), a)
                             /\ SaysNotSupported(removeReaction(a), a)
    /\ \A i \in NewCalls :
          (/\ calls'[i].method \in Reactions
           /\ calls'[i].method \notin Overrides(platform(calls'[i].adapter)))
          => /\ SaysNotSupported(calls'[i], calls'[i].adapter)
             /\ UNCHANGED <<adapters, running, state, listeners, readyOnce, readyDue, ops,
                            hubLog, emitted>>

\* C24: addReaction and removeReaction as BaseAdapter defines them reject
\* with an error whose message contains not supported and the adapter's
\* channel type, for an adapter of any class in any connection state, and
\* change no state and emit no signal
C24_DefaultReactionsRejected == [][C24_Step]_vars

\* the WhatsApp adapter, in state error, has rejected a removeReaction, which
\* its class does not define
C24_Witness ==
    \E i \in 1..Len(calls) :
       /\ calls[i].adapter = "wa1" /\ calls[i].method = "removeReaction"
       /\ calls[i].outcome = "rejected"
       /\ calls[i].error = <<"Reactions ", "not supported", " by ", "w">>
       /\ state["wa1"] = "error"
       /\ \E j \in 1..i - 1 : calls[j].method = "connect" /\ calls[j].outcome = "rejected"

-----------------------------------------------------------------------------
(* Properties of the frame of the messaging calls *)

\* this step is a send, reply or broadcast, or the settling of one
MessagingStep == <<msg, msgAt, sends, sent>>' # <<msg, msgAt, sends, sent>>

\* the hub has a hand in the state of a in this step: it calls a.connect(), or
\* a connect() or disconnect() it called settles, or the client that a
\* connect() initialized reports ready
HubDriven(a) ==
    \/ \E i \in NewCalls : calls'[i].adapter = a /\ calls'[i].method = "connect"
    \/ \E i \in NowSettled("connect") \cup NowSettled("disconnect") : calls[i].adapter = a
    \/ /\ readyDue[a] /\ ~readyDue'[a]
       /\ \E i \in 1..Len(calls) : /\ calls[i].adapter = a /\ calls[i].method = "connect"
                                    /\ calls[i].outcome = "resolved"

C25_Step ==
    /\ MessagingStep
       => UNCHANGED <<adapters, running, state, listeners, readyOnce, readyDue, calls, ops,
                      hubLog, emitted>>
    /\ \A a \in AllInsts : state'[a] # state[a] => HubDriven(a)

\* C25: a send, reply or broadcast, and the settling of its sendMessage calls,
\* leave the registry, the running flag and every adapter's state as they
\* are; an adapter's state changes only in a step of a connect() or
\* disconnect() the hub called on that adapter
C25_MessagingFrame == [][C25_Step]_vars

\* a broadcast to a connected and a failing destination has returned on a hub
\* that is as it was when the broadcast was made
C25_Witness ==
    /\ msg.kind = "broadcast" /\ msg.status = "resolved"
    /\ Len(sends) = 2
    /\ \E i, j \in 1..2 : /\ sends[i].result = Result(TRUE, "")
                          /\ sends[j].result = Result(FALSE, "platform error")
    /\ msgAt = [adapters |-> adapters, running |-> running, state |-> state]
    /\ running
    /\ \A i \in 1..2 : state[sends[i].adapter] = "connected"

-----------------------------------------------------------------------------
(* Properties of the inbound content *)

\* the fields and types each extractContent knows
Recognised(p) ==
    CASE p = "telegram" ->
           {"text", "photo", "video", "voice", "audio", "document", "location", "sticker"}
      [] p = "whatsapp" -> {"hasMedia", "location", "vcard", "sticker"}
      [] p = "discord" -> {"attachments", "stickers"}
      [] p = "imessage" -> {"attachments", "tapback"}

\* the message has none of the shapes the adapter class knows
Unrecognised(p, m) == (m.has \cup {m.type}) \cap Recognised(p) = {}

\* C26: extractContent of every adapter class answers every platform message
\* with a content of one of the nine types, and a message of none of the
\* shapes it knows with a text; the handler passes such a message on as a
\* message and an event all the same, so that every message the hub shows has
\* one of the nine types
C26_InboundContentClosed ==
    /\ \A a \in AllInsts : \A m \in InboundPayloads(platform(a)) :
          LET p == platform(a) IN
          /\ extractContent(p, m) \in ContentTypes
          /\ Unrecognised(p, m) => extractContent(p, m) = "text"
          /\ (Unrecognised(p, m) /\ ~Skipped(p, m))
             => onMessage(p, m) = <<Signal("message", "text"), Signal("event", "text")>>
    /\ \A a \in AllInsts : \A n \in 1..Len(emitted[a]) :
          emitted[a][n].sig = "message"
          => /\ emitted[a][n].arg \in ContentTypes
             /\ n < Len(emitted[a])
             /\ emitted[a][n + 1] = Signal("event", emitted[a][n].arg)
             /\ \E h \in 1..Len(hubLog[idOf(a)]) :
                   hubLog[idOf(a)][h] = HubSignal("message", a, emitted[a][n].arg)

\* the Telegram adapter has passed on a poll, which it does not know, as a
\* text, after a photo
C26_Witness ==
    /\ Payload({"poll"}, NoMime, "") \in InboundPayloads("telegram")
    /\ Unrecognised("telegram", Payload({"poll"}, NoMime, ""))
    /\ Len(emitted["tg1"]) = 5
    /\ emitted["tg1"][2] = Signal("message", "image")
    /\ emitted["tg1"][4] = Signal("message", extractContent("telegram", Payload({"poll"}, NoMime, "")))
    /\ emitted["tg1"][4].arg = "text"
    /\ hubLog[idOf("tg1")][4] = HubSignal("message", "tg1", "text")

-----------------------------------------------------------------------------
(* Properties of overlapping calls *)

\* the connect() calls that start() made on adapter a
StartConnects(a) ==
    {i \in 1..Len(calls) : /\ calls[i].adapter = a /\ calls[i].method = "connect"
                           /\ ops[calls[i].op].kind = "start"}

\* the disconnect() calls the hub made on adapter a
Disconnects(a) == {i \in 1..Len(calls) : calls[i].adapter = a /\ calls[i].method = "disconnect"}

\* C27: however start() and stop() calls overlap, the hub's own signals are
\* started, stopped, started, ... in turn, and between two connect() calls
\* that start() makes on an adapter the hub calls its disconnect()
C27_StartStopAlternate ==
    /\ \A n \in 1..Len(hubLog[<<>>]) :
          hubLog[<<>>][n].sig = IF n % 2 = 1 THEN "started" ELSE "stopped"
    /\ \A a \in AllInsts : \A i, j \in StartConnects(a) :
          i < j => \E d \in Disconnects(a) : i < d /\ d < j

\* the hub has called connect() on adapter a
Connected(cs, a) == \E i \in 1..Len(cs) : cs[i].adapter = a /\ cs[i].method = "connect"

C28_Step ==
    NowResolved("start") # {}
    => \A i \in 1..Len(adapters') : Connected(calls', adapters'[i].adapter)

\* C28: when start() resolves, the hub has called connect() on every adapter
\* in the registry, those registered while start() was awaiting the others
\* included
C28_StartConnectsAllRegistered == [][C28_Step]_vars

-----------------------------------------------------------------------------
(* Properties of calls that outlive a disconnect *)

\* the connect() and disconnect() calls made on adapter a
SessionCalls(cs, a) ==
    {i \in 1..Len(cs) : cs[i].adapter = a /\ cs[i].method \in {"connect", "disconnect"}}

\* the last call made on adapter a is a disconnect(), and it has resolved
DisconnectedLast(cs, a) ==
    /\ SessionCalls(cs, a) # {}
    /\ LET last == CHOOSE i \in SessionCalls(cs, a) : \A j \in SessionCalls(cs, a) : j <= i
       IN cs[last].method = "disconnect" /\ cs[last].outcome = "resolved"

C29_Step ==
    \A a \in AllInsts :
       (DisconnectedLast(calls, a) /\ SessionCalls(calls', a) = SessionCalls(calls, a))
       => /\ state'[a] = "disconnected"
          /\ Places(NewSignals(a), "connected") = {}

\* C29: after a disconnect() has resolved, and until connect() is called
\* again, the adapter stays disconnected and emits no connected signal,
\* whatever an earlier connect() or its platform's callbacks still do
C29_DisconnectIsFinal == [][C29_Step]_vars

\* C30: an adapter whose unregisterAdapter call has resolved, and on which
\* no connect() has been called since that call was made, is not connected,
\* also when it was connecting at the time
C30_RemovedNotConnected ==
    \A k \in 1..Len(ops) :
       (/\ ops[k].kind = "unregisterAdapter" /\ ops[k].status = "resolved"
        /\ ops[k].adapter # "none"
        /\ \A i \in 1..Len(calls) :
              (calls[i].adapter = ops[k].adapter /\ calls[i].method = "connect")
              => calls[i].op < k)
       => state[ops[k].adapter] # "connected"

-----------------------------------------------------------------------------
(* Properties of failures *)

\* the unregisterAdapter calls that settle in this step, either way
NowEnded(kind) ==
    {k \in 1..Len(ops) : /\ ops[k].kind = kind
                         /\ ops[k].status = "pending"
                         /\ ops'[k].status \in {"resolved", "rejected"}}

C31_Step ==
    \A k \in NowEnded("unregisterAdapter") : Removed(ops[k].adapter, ops[k].id)

\* C31: when an unregisterAdapter call that awaited the adapter's
\* disconnect() settles, resolved or rejected, the id is out of the registry,
\* Hub.send answers adapter not found and the hub listens to the adapter no
\* more
C31_UnregisterDespiteFailure == [][C31_Step]_vars

C32_Step ==
    \A i \in NowSettled("connect") :
       (ops[calls[i].op].kind = "start" /\ calls'[i].outcome = "rejected")
       => Emitted(hubLog', "adapter:error", idOf(calls[i].adapter))
             = Emitted(hubLog, "adapter:error", idOf(calls[i].adapter)) + 1

\* C32: a connect() of an adapter that start() called and that fails makes
\* the hub emit adapter:error for that adapter once, not once for the
\* adapter's error signal and once more for the rejected promise
C32_OneErrorPerFailedConnect == [][C32_Step]_vars

-----------------------------------------------------------------------------
(* Properties of the connection signals *)

\* the adapter:connected and adapter:disconnected signals the hub has shown
\* for an adapter id, in order
ConnectionSignals(id) ==
    SelectSeq(hubLog[id], LAMBDA e : e.sig \in {"adapter:connected", "adapter:disconnected"})

\* C33: for every adapter the hub's adapter:connected and
\* adapter:disconnected signals come in turn, adapter:connected first
C33_ConnectionSignalsAlternate ==
    \A id \in Sources \ {<<>>} :
       \A n \in 1..Len(ConnectionSignals(id)) :
          ConnectionSignals(id)[n].sig =
             IF n % 2 = 1 THEN "adapter:connected" ELSE "adapter:disconnected"

-----------------------------------------------------------------------------
(* Properties of the platform requests *)

\* message_id of the platform message a unified Telegram message was built
\* from: the part of platformMessageId after the chat id
NativeMessageId(m) ==
    LET parts == Split(m.platformMessageId) IN parts[Len(parts)]

\* C34: a reply to a message of a Telegram adapter asks the platform to reply
\* to the original's own message id: the reply_to_message_id of the request
\* is the message_id the original was built from, not its chat id.
C34_ReplyToNativeMessageId ==
    msg.kind = "reply" =>
       \A j \in 1..Len(sends) :
          platform(sends[j].adapter) = "telegram" =>
             sends[j].request.reply_to_message_id = NativeMessageId(msg.original)

-----------------------------------------------------------------------------
(* Properties of the listeners of the hub's user *)

\* the connect() calls that end in this step
ConnectEnded ==
    {i \in 1..Len(calls) : /\ calls[i].method = "connect"
                           /\ calls[i].outcome = "pending"
                           /\ calls'[i].outcome # "pending"}

\* a announces itself connected in this step
Announces(a) ==
    \E n \in Len(emitted[a]) + 1..Len(emitted'[a]) : emitted'[a][n].sig = "connected"

\* C35: an exception of a listener of the hub's user does not change an
\* adapter's state: a connect() in whose course the adapter announced itself
\* connected, its platform session established, ends with the adapter in
\* state connected, not error.
C35_Step ==
    \A i \in ConnectEnded :
       Announces(calls[i].adapter) => state'[calls[i].adapter] = "connected"

C35_ListenerCannotFailConnect == [][C35_Step]_vars

-----------------------------------------------------------------------------
(* Properties of the order of the messages *)

\* the messages a has emitted, in order
MessagesOut(a) ==
    LET out == SelectSeq(emitted[a], LAMBDA e : e.sig = "message")
    IN [n \in 1..Len(out) |-> out[n].arg]

\* the place of message m among those delivered to a
DeliveredAt(a, m) ==
    CHOOSE n \in 1..Len(Transformations(calls, a)) : Transformations(calls, a)[n].content = m

\* C36: a WhatsApp adapter emits its message signals in the order in which
\* its client delivered the messages, however long each transformation took.
C36_WhatsAppOrderKept ==
    \A a \in AllInsts :
       platform(a) = "whatsapp" /\ Transformations(calls, a) # <<>> =>
          \A x, y \in 1..Len(MessagesOut(a)) :
             x < y => DeliveredAt(a, MessagesOut(a)[x]) < DeliveredAt(a, MessagesOut(a)[y])

-----------------------------------------------------------------------------
(* Properties of the API servers *)

\* the part of a composite conversation id after its second ':'
RECURSIVE AfterDelims(_, _)
AfterDelims(c, n) ==
    IF n = 0 \/ c = <<>> THEN c
    ELSE AfterDelims(Tail(c), IF Head(c) = Delim THEN n - 1 ELSE n)

\* the request is for a composite id T:A:C with the channel type T
Composite(body) ==
    /\ Len(Split(body.conversationId)) >= 3
    /\ Split(body.conversationId)[1] = body.channelType

\* C37: POST /api/send with a composite conversation id T:A:C sends through
\* the adapter registered as A, to the native conversation id C, and through
\* no other adapter, whichever adapters of type T are connected.
C37_ApiSendRoutesById ==
    msg.kind \in ApiServers /\ Composite(msg.original) =>
       \A j \in 1..Len(sends) :
          /\ sends[j].adapter = MapGet(msgAt.adapters, Split(msg.original.conversationId)[2])
          /\ sends[j].conversationId = AfterDelims(msg.original.conversationId, 2)

-----------------------------------------------------------------------------
(* Properties of the iMessage poller *)

\* how many times a has emitted the message guid
TimesEmitted(a, guid) ==
    Cardinality({n \in 1..Len(emitted[a]) : emitted[a][n] = Signal("message", guid)})

\* every message of another account in an answer the poller has gone through
\* has been emitted once
EmittedOnce ==
    \A i \in 1..Len(polls) :
       polls[i].status = "done" =>
          \A n \in 1..Len(polls[i].data) :
             ~polls[i].data[n].isFromMe =>
                TimesEmitted(polls[i].adapter, polls[i].data[n].guid) = 1

\* C38: in polling mode every incoming message the server returns is emitted
\* exactly once, never twice across overlapping ticks and never skipped, two
\* messages of the same creation time included, and lastMessageDate never
\* decreases.
C38_Step ==
    /\ lastMessageDate' >= lastMessageDate
    /\ EmittedOnce'

C38_PolledExactlyOnce == [][C38_Step]_vars

====
